---------------------------- MODULE Spec2Model ----------------------------
(***************************************************************************)
(* Route Quality Engine of the 10K walking-loop generator.                 *)
(*                                                                         *)
(* Numbers.  The source computes in IEEE doubles; the model computes in    *)
(* integers with fixed units:                                              *)
(*   - coordinates       micro-degrees (1e-6 deg), a point is <<lng, lat>> *)
(*                       as in GeoJSON                                     *)
(*                       offset from the start point of the loop           *)
(*   - route distances   decimetres                                        *)
(*   - search radius     metres (the source's radiusKm * 1000)             *)
(*   - haversine results centimetres                                       *)
(*   - scores            thousandths                                       *)
(* Divisions round toward minus infinity.                                  *)
(***************************************************************************)
EXTENDS Integers, Sequences, FiniteSets, TLC

Max2(a, b) == IF a >= b THEN a ELSE b

Min2(a, b) == IF a <= b THEN a ELSE b

Abs(a) == IF a < 0 THEN -a ELSE a

RECURSIVE SqrtIter(_, _, _)
SqrtIter(n, lo, hi) ==
    IF lo >= hi THEN lo
    ELSE LET mid == (lo + hi + 1) \div 2
         IN  IF mid * mid <= n THEN SqrtIter(n, mid, hi)
                               ELSE SqrtIter(n, lo, mid - 1)

\* Math.sqrt on a non-negative integer, rounded down
Sqrt(n) == SqrtIter(n, 0, Min2(n, 46340))

\* Math.round(num / den) for num >= 0, den > 0 (halves round up)
RoundDiv(num, den) == (2 * num + den) \div (2 * den)

(***************************************************************************)
(* Program constants                                                       *)
(***************************************************************************)
MAX_WAYPOINT_RETRIES == 3

\* metres
CUL_DE_SAC_THRESHOLD_M == 10

MAX_ATTEMPTS == 20

\* 0.000045 degrees, in micro-degrees
CELL_DEG == 45

MIN_SEQ_GAP == 15

\* cos(start latitude) * 1000 for the start point used throughout the
\* repository's tests (48.8566 N)
CosMilli == 658

\* centimetres of great circle per micro-degree, times 1000 (R = 6371e3)
CmPerMicroDegMilli == 11119

\* 2 * Math.PI, in milliradians
TwoPiMilli == 6283

(***************************************************************************)
(* haversineM: great-circle distance of two <<lng, lat>> points, in        *)
(* centimetres.  At the scale of a walking loop the haversine formula      *)
(* reduces to R * sqrt(dLat^2 + (cos(lat) * dLng)^2).                      *)
(***************************************************************************)
haversineM(lng1, lat1, lng2, lat2) ==
    LET dy == (Abs(lat2 - lat1) * CmPerMicroDegMilli) \div 1000
        dx == (((Abs(lng2 - lng1) * CmPerMicroDegMilli) \div 1000) * CosMilli) \div 1000
    IN  IF dx = 0 THEN dy
        ELSE IF dy = 0 THEN dx
        ELSE IF dx < 30000 /\ dy < 30000 THEN Sqrt(dx * dx + dy * dy)
        ELSE 10 * Sqrt((dx \div 10) * (dx \div 10) + (dy \div 10) * (dy \div 10))

(***************************************************************************)
(* Zone Classifier (danger-zones.ts).  The Unsafe Regions come from a data *)
(* file; the model holds axis-parallel rectangular regions                 *)
(* [minLng, maxLng, minLat, maxLat].  Containment includes the boundary,   *)
(* as booleanPointInPolygon does by default.                               *)
(***************************************************************************)
dangerZones ==
    { [minLng |-> 3000, maxLng |-> 6000, minLat |-> -9500, maxLat |-> -8500],
      [minLng |-> 9900, maxLng |-> 10700, minLat |-> -6700, maxLat |-> -6000] }

isInDangerZone(lat, lng) ==
    \E zone \in dangerZones :
        /\ zone.minLng <= lng /\ lng <= zone.maxLng
        /\ zone.minLat <= lat /\ lat <= zone.maxLat

RECURSIVE filterSafeWaypoints_UntilUnsafe(_)
\* the waypoints before the first one inside an Unsafe Region
filterSafeWaypoints_UntilUnsafe(wps) ==
    IF wps = << >> THEN << >>
    ELSE IF isInDangerZone(Head(wps)[1], Head(wps)[2]) THEN << >>
    ELSE << Head(wps) >> \o filterSafeWaypoints_UntilUnsafe(Tail(wps))

RECURSIVE filterSafeWaypoints(_)
\* waypoints.filter(([lat, lng]) => !isInDangerZone(lat, lng))
filterSafeWaypoints(wps) ==
    IF wps = << >> THEN << >>
    ELSE IF isInDangerZone(Head(wps)[1], Head(wps)[2])
    THEN filterSafeWaypoints(Tail(wps))
    ELSE << Head(wps) >> \o filterSafeWaypoints(Tail(wps))

\* the check with the stride its comment announces ("every 10th coordinate")
routePassesThroughDangerZone_EveryTenth(geometry) ==
    LET coords == geometry
        step   == 10
    IN  \E i \in 0 .. (Len(coords) - 1) :
            /\ i % step = 0
            /\ isInDangerZone(coords[i + 1][2], coords[i + 1][1])

routePassesThroughDangerZone(geometry) ==
    LET coords == geometry
        step   == Max2(1, Len(coords) \div 50)
    IN  \E i \in 0 .. (Len(coords) - 1) :
            /\ i % step = 0
            /\ isInDangerZone(coords[i + 1][2], coords[i + 1][1])

(***************************************************************************)
(* Quality Evaluator (route-generator.ts)                                  *)
(***************************************************************************)
\* The grid lookup of the source returns, for point i, exactly the zone
\* points whose cell lies in the 3x3 block of cells around i's cell.
hasCulDeSac(geometry) ==
    LET coords    == geometry
        total     == Len(coords)
        zoneStart == (total * 5) \div 100
        zoneEnd   == total - ((total * 5) \div 100)
        cx(i)     == coords[i + 1][1] \div CELL_DEG
        cy(i)     == coords[i + 1][2] \div CELL_DEG
    IN  /\ total >= 20
        /\ \E i \in zoneStart .. (zoneEnd - 1) :
             \E j \in zoneStart .. (zoneEnd - 1) :
                /\ Abs(cx(j) - cx(i)) <= 1
                /\ Abs(cy(j) - cy(i)) <= 1
                /\ Abs(j - i) >= MIN_SEQ_GAP
                /\ haversineM(coords[i + 1][1], coords[i + 1][2],
                              coords[j + 1][1], coords[j + 1][2])
                     < CUL_DE_SAC_THRESHOLD_M * 100

Sign(a) == IF a > 0 THEN 1 ELSE IF a < 0 THEN -1 ELSE 0

\* the ccw helper; only the sign of a product d1 * d2 is used by the source
cross(a, b, c) ==
    (b[1] - a[1]) * (c[2] - a[2]) - (b[2] - a[2]) * (c[1] - a[1])

hasSelfIntersection(geometry) ==
    LET coords   == geometry
        total    == Len(coords)
        SAMPLE   == Max2(1, total \div 200)
        n        == ((total - 1) \div SAMPLE) + 2
        sampled(k) == IF k < n - 1 THEN coords[k * SAMPLE + 1] ELSE coords[total]
        zoneSkip == Max2(2, (n * 5) \div 100)
    IN  /\ total >= 40
        /\ \E i \in 0 .. (n - 2) :
             \E j \in (i + 2) .. (n - 2) :
                /\ ~(i < zoneSkip /\ j >= n - 1 - zoneSkip)
                /\ ~(j < zoneSkip /\ i >= n - 1 - zoneSkip)
                /\ LET d1 == cross(sampled(i), sampled(i + 1), sampled(j))
                       d2 == cross(sampled(i), sampled(i + 1), sampled(j + 1))
                       d3 == cross(sampled(j), sampled(j + 1), sampled(i))
                       d4 == cross(sampled(j), sampled(j + 1), sampled(i + 1))
                   IN  Sign(d1) * Sign(d2) < 0 /\ Sign(d3) * Sign(d4) < 0

RECURSIVE Shoelace(_, _)
\* sum over i of x_i * y_(i+1) - x_(i+1) * y_i, for the first k segments
Shoelace(coords, k) ==
    IF k = 0 THEN 0
    ELSE Shoelace(coords, k - 1)
           + coords[k][1] * coords[k + 1][2] - coords[k + 1][1] * coords[k][2]

SetMax(S) == CHOOSE x \in S : \A y \in S : y <= x

SetMin(S) == CHOOSE x \in S : \A y \in S : x <= y

\* in thousandths
circularityScore(geometry) ==
    LET coords  == geometry
        lngs    == { coords[i][1] : i \in 1 .. Len(coords) }
        lats    == { coords[i][2] : i \in 1 .. Len(coords) }
        minLng  == SetMin(lngs)
        maxLng  == SetMax(lngs)
        minLat  == SetMin(lats)
        maxLat  == SetMax(lats)
        widthM  == haversineM(minLng, (minLat + maxLat) \div 2,
                              maxLng, (minLat + maxLat) \div 2)
        heightM == haversineM((minLng + maxLng) \div 2, minLat,
                              (minLng + maxLng) \div 2, maxLat)
        aspect  == (1000 * Max2(widthM, heightM)) \div Min2(widthM, heightM)
        area2   == Abs(Shoelace(coords, Len(coords) - 1))
        bboxArea == (maxLng - minLng) * (maxLat - minLat)
        fillPenalty == IF bboxArea <= 0 \/ 5 * area2 < 2 * bboxArea THEN 3
                       ELSE IF 5 * area2 < 3 * bboxArea THEN 1 ELSE 0
    IN  IF Len(coords) < 10 THEN 0
        ELSE IF widthM < 5000 \/ heightM < 5000 THEN 10000
        ELSE (aspect - 1000) + 1000 * fillPenalty

(***************************************************************************)
(* Path geometries the routing engine can return.  A LineString is the     *)
(* sequence of its coordinates; the state holds the name of a geometry and *)
(* Coordinates gives its points.  Each path starts and ends at the start   *)
(* point <<0, 0>>.                                                         *)
(***************************************************************************)
\* k points from p (included) towards q (excluded), evenly spaced
Leg(p, q, k) ==
    [i \in 1 .. k |-> << p[1] + ((i - 1) * (q[1] - p[1])) \div k,
                         p[2] + ((i - 1) * (q[2] - p[2])) \div k >>]

RECURSIVE Path(_, _)
\* the polyline through the corners, k points per leg, the last corner included
Path(corners, k) ==
    IF Len(corners) = 1 THEN << corners[1] >>
    ELSE Leg(corners[1], corners[2], k) \o Path(Tail(corners), k)

\* points per leg of the catalogue's paths
PointsPerLeg == 11

GeometryNames ==
    {"loop", "spur", "eight", "strip", "tiny", "short", "unsafe", "shortEight",
     "shortUnsafe"}

Coordinates(name) ==
    CASE name = "loop" ->
           Path(<< <<0, 0>>, <<9000, 0>>, <<9000, 9000>>, <<0, 9000>>, <<0, 0>> >>,
                PointsPerLeg)
      [] name = "spur" ->
           Path(<< <<0, 0>>, <<9000, 0>>, <<9000, 9000>>, <<4500, 9000>>,
                   <<4500, 4500>>, <<4500, 9000>>, <<0, 9000>>, <<0, 0>> >>,
                PointsPerLeg)
      [] name = "eight" ->
           Path(<< <<0, 0>>, <<9000, 9000>>, <<9000, 0>>, <<0, 9000>>, <<0, 0>> >>,
                PointsPerLeg)
      [] name = "strip" ->
           Path(<< <<0, 0>>, <<3000, 0>>, <<3000, 12000>>, <<0, 12000>>, <<0, 0>> >>,
                PointsPerLeg)
      [] name = "tiny" ->
           Path(<< <<0, 0>>, <<100, 0>>, <<100, 100>>, <<0, 100>>, <<0, 0>> >>,
                PointsPerLeg)
      [] name = "short" ->
           Path(<< <<0, 0>>, <<9000, 0>>, <<9000, 9000>>, <<0, 9000>>, <<0, 0>> >>, 1)
      [] name = "unsafe" ->
           Path(<< <<0, 0>>, <<9000, 0>>, <<9000, -9000>>, <<0, -9000>>, <<0, 0>> >>,
                PointsPerLeg)
      [] name = "shortEight" ->
           Path(<< <<0, 0>>, <<9000, 9000>>, <<9000, 0>>, <<0, 9000>>, <<0, 0>> >>, 2)
      [] name = "shortUnsafe" ->
           Path(<< <<0, 0>>, <<4500, -9000>>, <<9000, 0>>, <<0, 0>> >>, 2)

(***************************************************************************)
(* Routing Client (callOSRM).  A reply of the routing service is           *)
(*   [fetch |-> "rejected", ...]                 the request itself failed *)
(*   [fetch |-> "resolved", ok, code, routes]    an HTTP response          *)
(* and a route is [distance, duration, geometry, legs].                    *)
(***************************************************************************)
NULL == [null |-> TRUE]

\* A step of a leg is [maneuver |-> [type, modifier, location]]; a modifier
\* is the sequence of its words (<<"slight", "left">>), << >> when the step
\* has none (m.modifier ?? ""); a location is <<lng, lat>>.
TURN_TYPES == {"turn", "end of road", "fork", "roundabout turn"}

\* mod.includes(word)
includes(mod, word) == \E i \in 1 .. Len(mod) : mod[i] = word

\* the type callOSRM gives to a modifier, "" (null in the source) when it
\* gives none
TurnType(mod) ==
    IF includes(mod, "left")
    THEN (IF mod = <<"slight", "left">> THEN "slight_left" ELSE "left")
    ELSE IF includes(mod, "right")
    THEN (IF mod = <<"slight", "right">> THEN "slight_right" ELSE "right")
    ELSE IF mod = <<"uturn">> THEN "uturn"
    ELSE ""

Instruction(mod) ==
    IF includes(mod, "left")
    THEN (IF mod = <<"slight", "left">> THEN "Legerement a gauche" ELSE "Tournez a gauche")
    ELSE IF includes(mod, "right")
    THEN (IF mod = <<"slight", "right">> THEN "Legerement a droite" ELSE "Tournez a droite")
    ELSE IF mod = <<"uturn">> THEN "Faites demi-tour"
    ELSE ""

\* every turn kept as a maneuver
StepManeuvers_AnyKind(step) ==
    LET m == step.maneuver
    IN  IF TurnType(m.modifier) = "" THEN << >>
        ELSE << [ lat |-> m.location[2], lng |-> m.location[1],
                  instruction |-> Instruction(m.modifier),
                  type |-> TurnType(m.modifier) ] >>

\* what one step adds to the maneuvers: nothing, or one maneuver
StepManeuvers(step) ==
    LET m == step.maneuver
    IN  IF m.type \notin TURN_TYPES THEN << >>
        ELSE IF TurnType(m.modifier) = "" THEN << >>
        ELSE << [ lat |-> m.location[2], lng |-> m.location[1],
                  instruction |-> Instruction(m.modifier),
                  type |-> TurnType(m.modifier) ] >>

\* leg.steps ?? []
StepsOf(leg) == IF "steps" \in DOMAIN leg THEN leg.steps ELSE << >>

\* route.legs ?? []
LegsOf(route) == IF "legs" \in DOMAIN route THEN route.legs ELSE << >>

RECURSIVE LegManeuvers(_)
\* for (const step of leg.steps ?? [])
LegManeuvers(steps) ==
    IF steps = << >> THEN << >>
    ELSE StepManeuvers(Head(steps)) \o LegManeuvers(Tail(steps))

RECURSIVE extractManeuvers(_)
\* for (const leg of route.legs ?? []): the maneuvers of the legs, in order
extractManeuvers(legs) ==
    IF legs = << >> THEN << >>
    ELSE LegManeuvers(StepsOf(Head(legs))) \o extractManeuvers(Tail(legs))

Step(type, modifier, location) ==
    [maneuver |-> [type |-> type, modifier |-> modifier, location |-> location]]

\* the turn the routing service reports on the paths of each geometry
TurnOf(geometry) ==
    CASE geometry = "loop"  -> <<"left">>
      [] geometry = "spur"  -> <<"uturn">>
      [] geometry = "eight" -> <<"right">>
      [] geometry = "strip" -> <<"slight", "left">>
      [] geometry = "tiny"  -> <<"sharp", "right">>
      [] geometry = "short" -> <<"slight", "right">>
      [] OTHER              -> <<"straight">>

\* the legs of a route: a departure, one turn located by the length of the
\* route, an arrival
RouteLegs(geometry, distance) ==
    << [steps |-> << Step("depart", << >>, <<0, 0>>),
                     Step("turn", TurnOf(geometry), << distance, 1 >>),
                     Step("arrive", << >>, <<0, 0>>) >>] >>

\* targetDistanceM, in decimetres
targetDistanceM(targetSteps) == (15 * targetSteps) \div 2

\* route length as thousandths of the target distance
DistanceRatios == {500, 899, 900, 1100, 1101, 5000}

\* The walking time the service reports is its own: the 5 km/h of the test
\* suite's mock on the plain loops of a round ratio, a slower pace on the
\* other routes.
Route(targetSteps, ratio, geometry) ==
    LET distance == (targetDistanceM(targetSteps) * ratio) \div 1000
    IN  [ distance |-> distance,
          duration |-> IF geometry = "loop" /\ ratio % 100 = 0
                       THEN RoundDiv(distance * 72, 1000)
                       ELSE RoundDiv(distance * 80, 1000),
          geometry |-> geometry,
          legs     |-> RouteLegs(geometry, distance) ]

Routes(targetSteps) ==
    { Route(targetSteps, ratio, "loop") : ratio \in DistanceRatios }
      \cup { Route(targetSteps, ratio, g) :
               ratio \in {1100, 5000}, g \in {"spur", "short"} }
      \cup { Route(targetSteps, 1000, g) :
               g \in {"eight", "strip", "tiny", "unsafe", "shortEight", "shortUnsafe"} }

FailureReplies ==
    { [fetch |-> "rejected", ok |-> FALSE, code |-> "", routes |-> << >>],
      [fetch |-> "resolved", ok |-> FALSE, code |-> "", routes |-> << >>],
      [fetch |-> "resolved", ok |-> TRUE, code |-> "NoRoute", routes |-> << >>],
      [fetch |-> "resolved", ok |-> TRUE, code |-> "Ok", routes |-> << >>] }

Replies(targetSteps) ==
    FailureReplies
      \cup { [fetch |-> "resolved", ok |-> TRUE, code |-> "Ok", routes |-> << r >>] :
               r \in Routes(targetSteps) }

\* The service whose route is as long as the circle through the farthest
\* waypoint of the request (createSmartOSRMMock of the test suite).
SmartMock == [fetch |-> "smart", ok |-> TRUE, code |-> "Ok", routes |-> << >>]

\* max over the waypoints of the request of their distance from the start, cm
maxRadius(req) ==
    SetMax({ haversineM(req[1][1], req[1][2], req[i][1], req[i][2]) :
               i \in 2 .. (Len(req) - 1) })

\* the reply of the mock to a request; routeDistance = maxRadius * 2 * Math.PI
SmartReply(req) ==
    LET routeDistance == ((maxRadius(req) \div 10) * TwoPiMilli) \div 1000
    IN  [ fetch |-> "resolved", ok |-> TRUE, code |-> "Ok",
          routes |-> << [ distance |-> routeDistance,
                          duration |-> RoundDiv(routeDistance * 72, 1000),
                          geometry |-> "loop",
                          legs     |-> RouteLegs("loop", routeDistance) ] >> ]

\* await fetch(url): what the service in state `service` replies to `req`
fetch(service, req) ==
    IF service.fetch = "smart" THEN SmartReply(req) ELSE service

\* callOSRM throws: fetch rejects, response.ok is false, or no usable route
callOSRMThrows(rep) ==
    \/ rep.fetch = "rejected"
    \/ ~rep.ok
    \/ rep.code # "Ok"
    \/ Len(rep.routes) = 0

\* the value callOSRM resolves with
callOSRM(rep) ==
    LET route == rep.routes[1]
    IN  [ distance  |-> route.distance,
          duration  |-> route.duration,
          geometry  |-> route.geometry,
          maneuvers |-> extractManeuvers(LegsOf(route)) ]

(***************************************************************************)
(* Waypoint Generator.  Angles are in milliradians, values of              *)
(* Math.random() in thousandths, a waypoint is <<lat, lng>> as in the      *)
(* source, in micro-degrees from the centre (the start point).             *)
(***************************************************************************)
\* Math.sin on [0, pi/2], by its series to the seventh power; thousandths
SinFirstQuadrant(y) ==
    LET y2 == (y * y) \div 1000
        t3 == ((y * y2) \div 1000) \div 6
        t5 == ((t3 * y2) \div 1000) \div 20
        t7 == ((t5 * y2) \div 1000) \div 42
    IN  Min2(1000, y - t3 + t5 - t7)

\* Math.sin of an angle in milliradians, in thousandths
sin(a) ==
    LET x    == a % TwoPiMilli
        half == TwoPiMilli \div 2
        quarter == TwoPiMilli \div 4
    IN  IF x <= quarter THEN SinFirstQuadrant(x)
        ELSE IF x <= half THEN SinFirstQuadrant(half - x)
        ELSE IF x <= half + quarter THEN -SinFirstQuadrant(x - half)
        ELSE -SinFirstQuadrant(TwoPiMilli - x)

\* Math.cos of an angle in milliradians, in thousandths
cos(a) == sin(a + TwoPiMilli \div 4)

\* 111.32 km per degree of latitude, in hundredths
KmPerDegCenti == 11132

\* u1, u2: the two values Math.random() returns, in the order of the calls
generateSingleWaypoint(radius, angle, u1, u2) ==
    LET r      == (radius * (950 + u1 \div 10)) \div 1000
        jitter == ((u2 - 500) * 50) \div 1000
        lat    == (r * sin(angle + jitter) * 100) \div KmPerDegCenti
        lng    == (((r * cos(angle + jitter) * 100) \div KmPerDegCenti) * 1000)
                    \div CosMilli
    IN  << lat, lng >>

\* the angle of waypoint i (from 0) of a ring of `count`
WaypointAngle(base, i, count) == base + (i * TwoPiMilli) \div count

\* The ring drawn when every Math.random() of the call returns rnd: the
\* retries of an index then draw the same candidate again, so a candidate
\* inside an Unsafe Region is replaced by the unchecked draw at angle + 0.5.
\* The ring carries the radius and count it was asked for and the ordinal
\* of the generation within the invocation.
generateSafeWaypoints(radius, count, ordinal, rnd) ==
    LET base == (rnd * TwoPiMilli) \div 1000
        waypoint(i) ==
            LET angle     == WaypointAngle(base, i, count)
                candidate == generateSingleWaypoint(radius, angle, rnd, rnd)
            IN  IF ~isInDangerZone(candidate[1], candidate[2]) THEN candidate
                ELSE generateSingleWaypoint(radius, angle + 500, rnd, rnd)
    IN  [ radiusKm |-> radius, count |-> count, ordinal |-> ordinal,
          points |-> [i \in 1 .. count |-> waypoint(i - 1)] ]

\* the start point, as <<lat, lng>>
start == << 0, 0 >>

\* the trailing start point left out of the request
allPoints_Open(from, wps) == << from >> \o wps

\* const allPoints = [start, ...waypoints, start]
allPoints(from, wps) == << from >> \o wps \o << from >>

\* the coordinates of the request URL: each <<lat, lng>> written "lng,lat"
coordString(points) == [i \in 1 .. Len(points) |-> << points[i][2], points[i][1] >>]

(***************************************************************************)
(* Convergence Controller (generateRoute)                                  *)
(***************************************************************************)
numWaypoints(targetSteps) ==
    Max2(3, Min2(8, RoundDiv(targetDistanceM(targetSteps), 15000)))

\* the initial radius taken as 1.3 km per 7500 m
InitialRadius_Wide(targetSteps) == (13 * targetSteps) \div 100

\* 1.2 * (targetDistanceM / 7500) km, in metres
InitialRadius(targetSteps) == (12 * targetSteps) \div 100

\* the upper bound of the distance window taken as exclusive
distanceOk_UpperExclusive(targetSteps, distance) ==
    /\ 10 * distance >= 9 * targetDistanceM(targetSteps)
    /\ 10 * distance < 11 * targetDistanceM(targetSteps)

distanceOk(targetSteps, distance) ==
    /\ 10 * distance >= 9 * targetDistanceM(targetSteps)
    /\ 10 * distance <= 11 * targetDistanceM(targetSteps)

\* What the Zone Classifier and the Quality Evaluator say of each geometry
\* of the catalogue, computed once.
Evaluated ==
    { [ geometry |-> g,
        unsafe   |-> routePassesThroughDangerZone(Coordinates(g)),
        culDeSac |-> hasCulDeSac(Coordinates(g)),
        selfCross |-> hasSelfIntersection(Coordinates(g)),
        circScore |-> circularityScore(Coordinates(g)) ] : g \in GeometryNames }

Eval(geometry) == CHOOSE e \in Evaluated : e.geometry = geometry

\* the crossing check left out
CrossesUnsafeRegion_Unchecked(res) == FALSE

\* routePassesThroughDangerZone(result.geometry)
CrossesUnsafeRegion(res) == Eval(res.geometry).unsafe

shapeOk(geometry) ==
    /\ ~Eval(geometry).selfCross
    /\ Eval(geometry).circScore < 1500

\* the penalties of backtracking and of self-intersection exchanged
score_PenaltiesExchanged(targetSteps, res) ==
    (IF distanceOk(targetSteps, res.distance) THEN 0 ELSE 1000)
      + (IF Eval(res.geometry).culDeSac THEN 4000 ELSE 0)
      + (IF Eval(res.geometry).selfCross THEN 5000 ELSE 0)
      + Eval(res.geometry).circScore

score(targetSteps, res) ==
    (IF distanceOk(targetSteps, res.distance) THEN 0 ELSE 1000)
      + (IF Eval(res.geometry).culDeSac THEN 5000 ELSE 0)
      + (IF Eval(res.geometry).selfCross THEN 4000 ELSE 0)
      + Eval(res.geometry).circScore

\* the condition of the immediate return
Perfect(targetSteps, res) ==
    /\ distanceOk(targetSteps, res.distance)
    /\ ~Eval(res.geometry).culDeSac
    /\ shapeOk(res.geometry)

\* the candidate recorded with the distance of the attempt but the geometry
\* of the plain loop
CandidateRoute_OtherGeometry(res, wps, sc) ==
    [ distance  |-> res.distance,
      geometry  |-> "loop",
      waypoints |-> wps,
      maneuvers |-> res.maneuvers,
      score     |-> sc ]

\* bestAny = { distance, geometry, waypoints, maneuvers, score }
CandidateRoute(res, wps, sc) ==
    [ distance  |-> res.distance,
      geometry  |-> res.geometry,
      waypoints |-> wps,
      maneuvers |-> res.maneuvers,
      score     |-> sc ]

\* the latest candidate always replaces the best
ReplacesBest_Latest(best, sc) == TRUE

\* a candidate of equal score also replaces the best
ReplacesBest_OrEqual(best, sc) == best = NULL \/ sc <= best.score

\* !bestAny || score < bestAny.score
ReplacesBest(best, sc) == best = NULL \/ sc < best.score

\* the radius adjusted after every attempt that is not returned
NeedsAdjustment_Always(targetSteps, res) == TRUE

\* if (!distanceOk)
NeedsAdjustment(targetSteps, res) == ~distanceOk(targetSteps, res.distance)

\* the radius aimed at (initial radius) * ratio at every adjustment
AdjustRadius_FromInitial(radius, targetSteps, distance) ==
    IF distance = 0 THEN 3000
    ELSE Max2(300, Min2(3000, (InitialRadius(targetSteps) * targetDistanceM(targetSteps))
                                \div distance))

\* radiusKm * ratio clamped to [0.3, 3.0] km; a zero distance gives an
\* infinite ratio, which the clamp turns into 3.0
AdjustRadius(radius, targetSteps, distance) ==
    IF distance = 0 THEN 3000
    ELSE Max2(300, Min2(3000, (radius * targetDistanceM(targetSteps)) \div distance))

\* the duration at the pace the routing service reports for its slower routes
buildResult_ReportedPace(distance, geometry, wps, maneuvers) ==
    [ distance      |-> RoundDiv(distance, 10),
      duration      |-> RoundDiv(distance * 80, 1000),
      geometry      |-> geometry,
      waypoints     |-> wps,
      stepsEstimate |-> RoundDiv(2 * distance, 15),
      maneuvers     |-> maneuvers ]

buildResult(distance, geometry, wps, maneuvers) ==
    [ distance      |-> RoundDiv(distance, 10),
      duration      |-> RoundDiv(distance * 72, 1000),
      geometry      |-> geometry,
      waypoints     |-> wps,
      stepsEstimate |-> RoundDiv(2 * distance, 15),
      maneuvers     |-> maneuvers ]

(***************************************************************************)
(* One invocation of generateRoute as a state machine.                     *)
(*                                                                         *)
(* pc: "loop"     at the head of the for loop                              *)
(*     "await"    suspended in `await callOSRM` of a budgeted attempt,     *)
(*                with the service's reply in `reply`                      *)
(*     "fallback" suspended in the `await callOSRM` of the last resort     *)
(*     "done"     resolved with `result`                                   *)
(*     "rejected" rejected with the routing failure                        *)
(*                                                                         *)
(* The routing service is scripted, as the mocks of the test suite are:    *)
(* `script` holds the phases [reply, calls] it goes through first (the     *)
(* same reply to that many calls), `steady` its reply to every call after  *)
(* those.  A route is given once per phase; a failure or an unsafe route   *)
(* may also persist for MAX_ATTEMPTS calls.                                *)
(*                                                                         *)
(* `random` is the value every Math.random() of the invocation returns:    *)
(* the midpoint 0.5 under Spec, where the replies do not depend on the     *)
(* waypoints, any draw under SpecSmart, where they do.  `request` holds    *)
(* the coordinates of the last request sent to the service.                *)
(*                                                                         *)
(* osrmCalls counts the calls of callOSRM; scored is the log of the        *)
(* attempts whose composite score was computed, [attempt, score] each.     *)
(***************************************************************************)
VARIABLES targetSteps, script, steady, random, pc, attempt, radiusKm, bestAny,
          waypoints, request, reply, result, osrmCalls, scored

\* The detectors of the Quality Evaluator and the Zone Classifier applied to
\* one geometry: lineString describes the geometry, verdict holds what the
\* detector applied to it returned.
VARIABLES lineString, verdict

\* One call of generateSafeWaypoints, step by step: genRadiusKm and genCount
\* are its arguments radiusKm and count; baseAngleOffset, index (the source's
\* i), retry and genWaypoint (the source's waypoint) its locals; ring the
\* array it builds (the source's waypoints); at its place in the code; drawn
\* the list of the draws made so far.
VARIABLES genRadiusKm, genCount, baseAngleOffset, index, retry, genWaypoint, ring,
          at, drawn

\* A function of the library applied to one argument: given is the argument,
\* answer what the function returned for it.
VARIABLES given, answer

\* Invocations of generateRoute running concurrently in one process: zones is
\* the module-level array of Unsafe Regions (dangerZonesData), runs holds the
\* locals of each invocation.
VARIABLES zones, runs

\* Requests of one user to POST /api/route: routeRows is the user's rows of
\* the table `routes` (the created_at of each), now the clock in seconds,
\* posts the requests in flight or answered.
VARIABLES routeRows, now, posts

controllerVars == << targetSteps, script, steady, random, pc, attempt, radiusKm,
                     bestAny, waypoints, request, reply, result, osrmCalls, scored >>

qualityVars == << lineString, verdict >>

generatorVars == << genRadiusKm, genCount, baseAngleOffset, index, retry,
                    genWaypoint, ring, at, drawn >>

libraryVars == << given, answer >>

concurrentVars == << zones, runs >>

serverVars == << routeRows, now, posts >>

vars == << controllerVars, qualityVars, generatorVars, libraryVars, concurrentVars,
           serverVars >>

\* no library function is being applied
LibraryIdle == given = NULL /\ answer = NULL

\* the Unsafe Regions are loaded and no concurrent invocation is followed
ConcurrentIdle == zones = dangerZones /\ runs = << >>

\* no request is being served
ServerIdle == routeRows = << >> /\ now = 0 /\ posts = << >>

\* no detector is being applied
QualityIdle == lineString = NULL /\ verdict = NULL

\* no call of generateSafeWaypoints is being followed
GeneratorIdle ==
    /\ genRadiusKm = 0 /\ genCount = 0 /\ baseAngleOffset = 0 /\ index = 0 /\ retry = 0
    /\ genWaypoint = NULL /\ ring = << >> /\ at = "idle" /\ drawn = << >>

\* most phases in the script of the routing service
MaxScript == 1

\* values of Math.random(), in thousandths
RandomDraws == {0, 500, 999}

TargetStepsSet == {2000, 3000, 6000, 10000, 15000, 30000}

RECURSIVE SeqsUpTo(_, _)
SeqsUpTo(S, n) ==
    IF n = 0 THEN { << >> }
    ELSE SeqsUpTo(S, n - 1)
           \cup { Append(q, x) : q \in { t \in SeqsUpTo(S, n - 1) : Len(t) = n - 1 },
                                 x \in S }

UnscoredReplies(ts) ==
    { rep \in Replies(ts) :
        callOSRMThrows(rep) \/ Eval(callOSRM(rep).geometry).unsafe }

Phases(ts) ==
    { [reply |-> rep, calls |-> 1] : rep \in Replies(ts) }
      \cup { [reply |-> rep, calls |-> MAX_ATTEMPTS] : rep \in UnscoredReplies(ts) }

RECURSIVE PhaseReply(_, _, _)
PhaseReply(phases, last, call) ==
    IF phases = << >> THEN last
    ELSE IF call < Head(phases).calls THEN Head(phases).reply
    ELSE PhaseReply(Tail(phases), last, call - Head(phases).calls)

\* the reply of the service to its call number `call` (from 0)
ReplyAt(call) == PhaseReply(script, steady, call)

Init ==
    /\ targetSteps \in TargetStepsSet
    /\ script \in SeqsUpTo(Phases(targetSteps), MaxScript)
    /\ steady \in Replies(targetSteps)
    /\ random = 500
    /\ pc = "loop"
    /\ attempt = 0
    /\ radiusKm = InitialRadius(targetSteps)
    /\ bestAny = NULL
    /\ waypoints = NULL
    /\ request = NULL
    /\ reply = NULL
    /\ result = NULL
    /\ osrmCalls = 0
    /\ scored = << >>
    /\ QualityIdle
    /\ GeneratorIdle
    /\ LibraryIdle
    /\ ConcurrentIdle
    /\ ServerIdle

\* the next attempt started while the call of the last one is in flight
StartAttempt_Speculative ==
    /\ pc \in {"loop", "await"}
    /\ attempt < MAX_ATTEMPTS
    /\ waypoints' = generateSafeWaypoints(radiusKm, numWaypoints(targetSteps),
                                          osrmCalls, random)
    /\ request' = coordString(allPoints(start, waypoints'.points))
    /\ reply' = fetch(ReplyAt(osrmCalls), request')
    /\ osrmCalls' = osrmCalls + 1
    /\ pc' = "await"
    /\ UNCHANGED << qualityVars, generatorVars, libraryVars, concurrentVars, serverVars,
                    targetSteps, script, steady, random, attempt, radiusKm, bestAny, result, scored >>

\* for (...; attempt < MAX_ATTEMPTS; ...): draw the waypoints, call the service
StartAttempt ==
    /\ pc = "loop"
    /\ attempt < MAX_ATTEMPTS
    /\ waypoints' = generateSafeWaypoints(radiusKm, numWaypoints(targetSteps),
                                          osrmCalls, random)
    /\ request' = coordString(allPoints(start, waypoints'.points))
    /\ reply' = fetch(ReplyAt(osrmCalls), request')
    /\ osrmCalls' = osrmCalls + 1
    /\ pc' = "await"
    /\ UNCHANGED << qualityVars, generatorVars, libraryVars, concurrentVars, serverVars,
                    targetSteps, script, steady, random, attempt, radiusKm, bestAny, result, scored >>

\* a failed attempt is tried again without being counted
AttemptFails_NotCounted ==
    /\ pc = "await"
    /\ callOSRMThrows(reply)
    /\ pc' = "loop"
    /\ UNCHANGED << qualityVars, generatorVars, libraryVars, concurrentVars, serverVars,
                    targetSteps, script, steady, random, attempt, radiusKm, bestAny,
                    waypoints, request, reply, result, osrmCalls, scored >>

\* the failure of a budgeted call propagates to the caller
AttemptFails_Propagates ==
    /\ pc = "await"
    /\ callOSRMThrows(reply)
    /\ pc' = "rejected"
    /\ UNCHANGED << qualityVars, generatorVars, libraryVars, concurrentVars, serverVars,
                    targetSteps, script, steady, random, attempt, radiusKm, bestAny,
                    waypoints, request, reply, result, osrmCalls, scored >>

\* catch { continue; }
AttemptFails ==
    /\ pc = "await"
    /\ callOSRMThrows(reply)
    /\ attempt' = attempt + 1
    /\ pc' = "loop"
    /\ UNCHANGED << qualityVars, generatorVars, libraryVars, concurrentVars, serverVars,
                    targetSteps, script, steady, random, radiusKm, bestAny, waypoints,
                    request, reply, result, osrmCalls, scored >>

\* if (routePassesThroughDangerZone(result.geometry)) continue;
AttemptUnsafe ==
    /\ pc = "await"
    /\ ~callOSRMThrows(reply)
    /\ CrossesUnsafeRegion(callOSRM(reply))
    /\ attempt' = attempt + 1
    /\ pc' = "loop"
    /\ UNCHANGED << qualityVars, generatorVars, libraryVars, concurrentVars, serverVars,
                    targetSteps, script, steady, random, radiusKm, bestAny, waypoints,
                    request, reply, result, osrmCalls, scored >>

\* Perfect route found: return immediately
AttemptPerfect ==
    /\ pc = "await"
    /\ ~callOSRMThrows(reply)
    /\ LET res == callOSRM(reply)
       IN  /\ ~CrossesUnsafeRegion(res)
           /\ Perfect(targetSteps, res)
           /\ result' = buildResult(res.distance, res.geometry, waypoints, res.maneuvers)
           /\ scored' = Append(scored, [attempt |-> attempt,
                                         score |-> score(targetSteps, res)])
    /\ pc' = "done"
    /\ UNCHANGED << qualityVars, generatorVars, libraryVars, concurrentVars, serverVars,
                    targetSteps, script, steady, random, attempt, radiusKm, bestAny,
                    waypoints, request, reply, osrmCalls >>

\* track the best overall, adjust the radius, next attempt
AttemptScored ==
    /\ pc = "await"
    /\ ~callOSRMThrows(reply)
    /\ LET res == callOSRM(reply)
           sc  == score(targetSteps, res)
       IN  /\ ~CrossesUnsafeRegion(res)
           /\ ~Perfect(targetSteps, res)
           /\ bestAny' = IF ReplacesBest(bestAny, sc)
                         THEN CandidateRoute(res, waypoints, sc)
                         ELSE bestAny
           /\ radiusKm' = IF NeedsAdjustment(targetSteps, res)
                          THEN AdjustRadius(radiusKm, targetSteps, res.distance)
                          ELSE radiusKm
           /\ scored' = Append(scored, [attempt |-> attempt, score |-> sc])
    /\ attempt' = attempt + 1
    /\ pc' = "loop"
    /\ UNCHANGED << qualityVars, generatorVars, libraryVars, concurrentVars, serverVars,
                    targetSteps, script, steady, random, waypoints, request, reply, result, osrmCalls >>

\* the test of the recorded best left out
HasBest_Unchecked == FALSE

\* if (bestAny)
HasBest == bestAny # NULL

\* the best candidate is refused when its distance is outside the window
ReturnBest_OrThrow ==
    /\ pc = "loop"
    /\ ~(attempt < MAX_ATTEMPTS)
    /\ HasBest
    /\ IF distanceOk(targetSteps, bestAny.distance)
       THEN /\ result' = buildResult(bestAny.distance, bestAny.geometry,
                                     bestAny.waypoints, bestAny.maneuvers)
            /\ pc' = "done"
       ELSE /\ result' = result
            /\ pc' = "rejected"
    /\ UNCHANGED << qualityVars, generatorVars, libraryVars, concurrentVars, serverVars,
                    targetSteps, script, steady, random, attempt, radiusKm, bestAny,
                    waypoints, request, reply, osrmCalls, scored >>

\* if (bestAny) return buildResult(bestAny...)
ReturnBest ==
    /\ pc = "loop"
    /\ ~(attempt < MAX_ATTEMPTS)
    /\ HasBest
    /\ result' = buildResult(bestAny.distance, bestAny.geometry, bestAny.waypoints,
                             bestAny.maneuvers)
    /\ pc' = "done"
    /\ UNCHANGED << qualityVars, generatorVars, libraryVars, concurrentVars, serverVars,
                    targetSteps, script, steady, random, attempt, radiusKm, bestAny,
                    waypoints, request, reply, osrmCalls, scored >>

\* Ultimate fallback: one more draw and one more call
StartFallback ==
    /\ pc = "loop"
    /\ ~(attempt < MAX_ATTEMPTS)
    /\ ~HasBest
    /\ waypoints' = generateSafeWaypoints(radiusKm, numWaypoints(targetSteps),
                                          osrmCalls, random)
    /\ request' = coordString(allPoints(start, waypoints'.points))
    /\ reply' = fetch(ReplyAt(osrmCalls), request')
    /\ osrmCalls' = osrmCalls + 1
    /\ pc' = "fallback"
    /\ UNCHANGED << qualityVars, generatorVars, libraryVars, concurrentVars, serverVars,
                    targetSteps, script, steady, random, attempt, radiusKm, bestAny, result, scored >>

\* the failure of the last call is swallowed
FallbackFails_Swallowed ==
    /\ pc = "fallback"
    /\ callOSRMThrows(reply)
    /\ pc' = "done"
    /\ UNCHANGED << qualityVars, generatorVars, libraryVars, concurrentVars, serverVars,
                    targetSteps, script, steady, random, attempt, radiusKm, bestAny,
                    waypoints, request, reply, result, osrmCalls, scored >>

\* the failure of the last call propagates
FallbackFails ==
    /\ pc = "fallback"
    /\ callOSRMThrows(reply)
    /\ pc' = "rejected"
    /\ UNCHANGED << qualityVars, generatorVars, libraryVars, concurrentVars, serverVars,
                    targetSteps, script, steady, random, attempt, radiusKm, bestAny,
                    waypoints, request, reply, result, osrmCalls, scored >>

FallbackReturns ==
    /\ pc = "fallback"
    /\ ~callOSRMThrows(reply)
    /\ LET res == callOSRM(reply)
       IN  result' = buildResult(res.distance, res.geometry, waypoints, res.maneuvers)
    /\ pc' = "done"
    /\ UNCHANGED << qualityVars, generatorVars, libraryVars, concurrentVars, serverVars,
                    targetSteps, script, steady, random, attempt, radiusKm, bestAny,
                    waypoints, request, reply, osrmCalls, scored >>

Next ==
    \/ StartAttempt
    \/ AttemptFails
    \/ AttemptUnsafe
    \/ AttemptPerfect
    \/ AttemptScored
    \/ ReturnBest
    \/ StartFallback
    \/ FallbackFails
    \/ FallbackReturns

Spec == Init /\ [][Next]_vars

\* The invocation against the service of createSmartOSRMMock, which may
\* first go through a scripted phase and may fail for good.
InitSmart ==
    /\ targetSteps \in TargetStepsSet
    /\ script \in SeqsUpTo(Phases(targetSteps), MaxScript)
    /\ steady \in {SmartMock} \cup FailureReplies
    /\ random \in RandomDraws
    /\ pc = "loop"
    /\ attempt = 0
    /\ radiusKm = InitialRadius(targetSteps)
    /\ bestAny = NULL
    /\ waypoints = NULL
    /\ request = NULL
    /\ reply = NULL
    /\ result = NULL
    /\ osrmCalls = 0
    /\ scored = << >>
    /\ QualityIdle
    /\ GeneratorIdle
    /\ LibraryIdle
    /\ ConcurrentIdle
    /\ ServerIdle

SpecSmart == InitSmart /\ [][Next]_vars

(***************************************************************************)
(* The detectors as pure functions.  A geometry is described by a record   *)
(* and built by Geometry; each action applies one detector of the source   *)
(* to the geometries of the family made for it and keeps what it returned. *)
(*   retrace   points 1000 micro-degrees apart along a parallel, except    *)
(*             point j, which is put back next to point i                  *)
(*   polygon   the regular polygon of buildOSRMResponse                    *)
(*   eight     the figure-eight of the catalogue, perLeg points per leg    *)
(*   box       a rectangular loop of the given width and height            *)
(*   crossing  points along the parallel of the start, except point hit,   *)
(*             which lies inside the Unsafe Region                         *)
(***************************************************************************)
RetraceShapes ==
    { [family |-> "retrace", total |-> n, i |-> i, j |-> i + gap,
       dLng |-> o[1], dLat |-> o[2], align |-> a] :
        n \in {19, 20, 40}, i \in {0, 1, 2, 4}, gap \in {14, 15, 16},
        o \in { <<0, 0>>, <<40, 0>>, <<100, 0>>, <<130, 0>>, <<140, 0>>,
                <<0, 85>>, <<0, 91>>, <<60, 60>> },
        a \in {0, 30} }

PolygonShapes ==
    { [family |-> "polygon", total |-> n, rho |-> rho] :
        n \in {9, 39, 40, 60, 100}, rho \in {100, 3000, 4500} }

EightShapes ==
    { [family |-> "eight", perLeg |-> k] : k \in {2, 9, 10, 11, 12, 15} }

BoxShapes ==
    { [family |-> "box", perLeg |-> k, width |-> w, height |-> h] :
        k \in {1, 2, 3, 11}, w \in {100, 600, 9000}, h \in {100, 600, 9000} }

CrossingShapes ==
    { [family |-> "crossing", total |-> n, hit |-> h] :
        n \in {5, 49, 99, 100, 150}, h \in {-1, 0, 1, 2, 3, 4, 48, 98, 99, 149} }

Shapes ==
    { sh \in RetraceShapes : sh.j < sh.total }
      \cup PolygonShapes \cup EightShapes \cup BoxShapes
      \cup { sh \in CrossingShapes : sh.hit < sh.total }

\* the coordinates, <<lng, lat>>, of the LineString a shape describes
Geometry(shape) ==
    CASE shape.family = "retrace" ->
           [k \in 1 .. shape.total |->
              IF k - 1 = shape.j
              THEN << 1000 * shape.i + shape.dLng, shape.align + shape.dLat >>
              ELSE << 1000 * (k - 1), shape.align >>]
      [] shape.family = "polygon" ->
           [k \in 1 .. shape.total |->
              LET angle == ((k - 1) * TwoPiMilli) \div shape.total
              IN  << (shape.rho * cos(angle)) \div 1000,
                     (shape.rho * sin(angle)) \div 1000 >>]
      [] shape.family = "eight" ->
           Path(<< <<0, 0>>, <<9000, 9000>>, <<9000, 0>>, <<0, 9000>>, <<0, 0>> >>,
                shape.perLeg)
      [] shape.family = "box" ->
           Path(<< <<0, 0>>, <<shape.width, 0>>, <<shape.width, shape.height>>,
                   <<0, shape.height>>, <<0, 0>> >>,
                shape.perLeg)
      [] shape.family = "crossing" ->
           [k \in 1 .. shape.total |->
              IF k - 1 = shape.hit THEN <<4500, -9000>> ELSE << 10 * (k - 1), 0 >>]

InitQuality ==
    /\ targetSteps = 10000
    /\ script = << >>
    /\ steady = SmartMock
    /\ random = 500
    /\ pc = "idle"
    /\ attempt = 0
    /\ radiusKm = 0
    /\ bestAny = NULL
    /\ waypoints = NULL
    /\ request = NULL
    /\ reply = NULL
    /\ result = NULL
    /\ osrmCalls = 0
    /\ scored = << >>
    /\ lineString \in Shapes
    /\ verdict = NULL
    /\ GeneratorIdle
    /\ LibraryIdle
    /\ ConcurrentIdle
    /\ ServerIdle

ApplyCulDeSac ==
    /\ verdict = NULL
    /\ lineString.family = "retrace"
    /\ verdict' = [of |-> "hasCulDeSac", returned |-> hasCulDeSac(Geometry(lineString))]
    /\ UNCHANGED << controllerVars, generatorVars, libraryVars, concurrentVars, serverVars,
                    lineString >>

ApplySelfIntersection ==
    /\ verdict = NULL
    /\ lineString.family \in {"polygon", "eight"}
    /\ verdict' = [of |-> "hasSelfIntersection",
                   returned |-> hasSelfIntersection(Geometry(lineString))]
    /\ UNCHANGED << controllerVars, generatorVars, libraryVars, concurrentVars, serverVars,
                    lineString >>

ApplyCircularity ==
    /\ verdict = NULL
    /\ lineString.family \in {"polygon", "box"}
    /\ verdict' = [of |-> "circularityScore",
                   returned |-> circularityScore(Geometry(lineString))]
    /\ UNCHANGED << controllerVars, generatorVars, libraryVars, concurrentVars, serverVars,
                    lineString >>

ApplyPassesThroughDangerZone ==
    /\ verdict = NULL
    /\ lineString.family = "crossing"
    /\ verdict' = [of |-> "routePassesThroughDangerZone",
                   returned |-> routePassesThroughDangerZone(Geometry(lineString))]
    /\ UNCHANGED << controllerVars, generatorVars, libraryVars, concurrentVars, serverVars,
                    lineString >>

\* the checks of an attempt without the Unsafe Region crossing check
AttemptChecks_CrossingUnchecked(geometry, fits) ==
    LET culDeSac  == hasCulDeSac(geometry)
        selfCross == hasSelfIntersection(geometry)
        circScore == circularityScore(geometry)
    IN  [ fits      |-> fits,
          unsafe    |-> FALSE,
          culDeSac  |-> culDeSac,
          selfCross |-> selfCross,
          circScore |-> circScore,
          returned  |-> fits /\ ~culDeSac /\ (~selfCross /\ circScore < 1500) ]

\* The checks of one attempt of generateRoute on the geometry of a route
\* whose distance fits the window or not: what each check said and whether
\* the attempt is returned at once.
AttemptChecks(geometry, fits) ==
    LET unsafe    == routePassesThroughDangerZone(geometry)
        culDeSac  == hasCulDeSac(geometry)
        selfCross == hasSelfIntersection(geometry)
        circScore == circularityScore(geometry)
    IN  [ fits      |-> fits,
          unsafe    |-> unsafe,
          culDeSac  |-> culDeSac,
          selfCross |-> selfCross,
          circScore |-> circScore,
          returned  |-> /\ ~unsafe
                        /\ fits /\ ~culDeSac /\ (~selfCross /\ circScore < 1500) ]

\* the checks of an attempt applied to the geometries under 40 points
ApplyAttemptChecks ==
    /\ verdict = NULL
    /\ Len(Geometry(lineString)) < 40
    /\ \E fits \in BOOLEAN :
         verdict' = [of |-> "attempt",
                     returned |-> AttemptChecks(Geometry(lineString), fits)]
    /\ UNCHANGED << controllerVars, generatorVars, libraryVars, concurrentVars, serverVars,
                    lineString >>

NextQuality ==
    \/ ApplyCulDeSac
    \/ ApplySelfIntersection
    \/ ApplyCircularity
    \/ ApplyPassesThroughDangerZone
    \/ ApplyAttemptChecks

SpecQuality == InitQuality /\ [][NextQuality]_vars

(***************************************************************************)
(* One call of generateSafeWaypoints, draw by draw.  Every call of         *)
(* generateSingleWaypoint draws its two Math.random() values afresh.       *)
(*   at: "retry"   at the head of the retry loop of waypoint `index`       *)
(*       "push"    a waypoint is chosen, before waypoints.push             *)
(*       "return"  the loop over the indices is over                       *)
(* drawn lists the draws in order: the index they were made for, the angle *)
(* given to generateSingleWaypoint, whether isInDangerZone was asked about *)
(* the candidate and whether the candidate was refused.                    *)
(***************************************************************************)
\* values of Math.random() for baseAngleOffset, in thousandths
BaseDraws == {0, 500, 800}

\* values of Math.random() for the radius factor and the jitter of a
\* candidate: the least and the greatest, in thousandths
CandidateDraws == {0, 999}

\* the calls followed, <<radiusKm (in metres), count, Math.random() of the
\* base angle>>: rings of 3 and 4 waypoints, and one of 8, the closest
\* spacing generateRoute asks for
Calls ==
    ({1000, 1200} \X {3, 4} \X BaseDraws) \cup { <<1000, 8, 800>> }

InitWaypoints ==
    /\ targetSteps = 10000
    /\ script = << >>
    /\ steady = SmartMock
    /\ random = 500
    /\ pc = "idle"
    /\ attempt = 0
    /\ radiusKm = 0
    /\ bestAny = NULL
    /\ waypoints = NULL
    /\ request = NULL
    /\ reply = NULL
    /\ result = NULL
    /\ osrmCalls = 0
    /\ scored = << >>
    /\ QualityIdle
    /\ LibraryIdle
    /\ ConcurrentIdle
    /\ ServerIdle
    /\ \E call \in Calls :
         /\ genRadiusKm = call[1]
         /\ genCount = call[2]
         /\ baseAngleOffset = (call[3] * TwoPiMilli) \div 1000
    /\ index = 0
    /\ retry = 0
    /\ genWaypoint = NULL
    /\ ring = << >>
    /\ at = "retry"
    /\ drawn = << >>

\* const angle = baseAngleOffset + (i / count) * 2 * Math.PI
CurrentAngle == WaypointAngle(baseAngleOffset, index, genCount)

\* a checked candidate outside every region: waypoint = candidate; break
CandidateAccepted ==
    /\ at = "retry"
    /\ retry < MAX_WAYPOINT_RETRIES
    /\ \E u1 \in CandidateDraws, u2 \in CandidateDraws :
         LET candidate == generateSingleWaypoint(genRadiusKm, CurrentAngle, u1, u2)
         IN  /\ ~isInDangerZone(candidate[1], candidate[2])
             /\ genWaypoint' = candidate
    /\ at' = "push"
    /\ drawn' = Append(drawn, [i |-> index, angle |-> CurrentAngle,
                               checked |-> TRUE, refused |-> FALSE])
    /\ UNCHANGED << controllerVars, qualityVars, libraryVars, concurrentVars, serverVars,
                    genRadiusKm, genCount,
                    baseAngleOffset, index, retry, ring >>

\* a checked candidate inside a region: next retry
CandidateRefused ==
    /\ at = "retry"
    /\ retry < MAX_WAYPOINT_RETRIES
    /\ \E u1 \in CandidateDraws, u2 \in CandidateDraws :
         LET candidate == generateSingleWaypoint(genRadiusKm, CurrentAngle, u1, u2)
         IN  isInDangerZone(candidate[1], candidate[2])
    /\ retry' = retry + 1
    /\ drawn' = Append(drawn, [i |-> index, angle |-> CurrentAngle,
                               checked |-> TRUE, refused |-> TRUE])
    /\ UNCHANGED << controllerVars, qualityVars, libraryVars, concurrentVars, serverVars,
                    genRadiusKm, genCount,
                    baseAngleOffset, index, genWaypoint, ring, at >>

\* the last draw made at the angle of the refused candidates
RetriesExhausted_SameAngle ==
    /\ at = "retry"
    /\ retry = MAX_WAYPOINT_RETRIES
    /\ genWaypoint = NULL
    /\ \E u1 \in CandidateDraws, u2 \in CandidateDraws :
         genWaypoint' = generateSingleWaypoint(genRadiusKm, CurrentAngle, u1, u2)
    /\ at' = "push"
    /\ drawn' = Append(drawn, [i |-> index, angle |-> CurrentAngle,
                               checked |-> FALSE, refused |-> FALSE])
    /\ UNCHANGED << controllerVars, qualityVars, libraryVars, concurrentVars, serverVars,
                    genRadiusKm, genCount,
                    baseAngleOffset, index, retry, ring >>

\* if (!waypoint): the draw at angle + 0.5, taken without a check
RetriesExhausted ==
    /\ at = "retry"
    /\ retry = MAX_WAYPOINT_RETRIES
    /\ genWaypoint = NULL
    /\ \E u1 \in CandidateDraws, u2 \in CandidateDraws :
         genWaypoint' = generateSingleWaypoint(genRadiusKm, CurrentAngle + 500, u1, u2)
    /\ at' = "push"
    /\ drawn' = Append(drawn, [i |-> index, angle |-> CurrentAngle + 500,
                               checked |-> FALSE, refused |-> FALSE])
    /\ UNCHANGED << controllerVars, qualityVars, libraryVars, concurrentVars, serverVars,
                    genRadiusKm, genCount,
                    baseAngleOffset, index, retry, ring >>

\* waypoints.push(waypoint); i++
PushWaypoint ==
    /\ at = "push"
    /\ ring' = Append(ring, genWaypoint)
    /\ index' = index + 1
    /\ retry' = 0
    /\ genWaypoint' = NULL
    /\ at' = IF index + 1 < genCount THEN "retry" ELSE "return"
    /\ UNCHANGED << controllerVars, qualityVars, libraryVars, concurrentVars, serverVars,
                    genRadiusKm, genCount,
                    baseAngleOffset, drawn >>

NextWaypoints ==
    \/ CandidateAccepted
    \/ CandidateRefused
    \/ RetriesExhausted
    \/ PushWaypoint

SpecWaypoints == InitWaypoints /\ [][NextWaypoints]_vars

(***************************************************************************)
(* Properties                                                              *)
(***************************************************************************)
ScoredSet == { scored[i] : i \in 1 .. Len(scored) }

\* the reply in `reply` is a failure of the routing client
ReplyIsFailure ==
    \/ reply.fetch = "rejected"
    \/ reply.fetch = "resolved"
         /\ (~reply.ok \/ reply.code # "Ok" \/ reply.routes = << >>)

\* the reply to call number c was a route (not a failure)
RouteAt(c) == ReplyAt(c).routes[1]

FailedAt(c) ==
    LET rep == ReplyAt(c)
    IN  rep.fetch = "rejected" \/ ~rep.ok \/ rep.code # "Ok" \/ rep.routes = << >>

Terminated == pc \in {"done", "rejected"}

\* some step of the invocation can be taken: one of the steps that follow a
\* reply or end the invocation is enabled, or the guard of one of the two
\* steps that draw waypoints and call the service holds (the rest of these
\* two is assignments)
CanStep ==
    \/ ENABLED (AttemptFails \/ AttemptUnsafe \/ AttemptPerfect \/ AttemptScored)
    \/ ENABLED (ReturnBest \/ FallbackFails \/ FallbackReturns)
    \/ pc = "loop" /\ (attempt < MAX_ATTEMPTS \/ ~HasBest)

\* the reply in `reply` is a route that meets every condition of the
\* immediate return
ReplyIsPerfect ==
    /\ ~ReplyIsFailure
    /\ LET r == reply.routes[1]
       IN  /\ ~Eval(r.geometry).unsafe
           /\ 10 * r.distance >= 9 * targetDistanceM(targetSteps)
           /\ 10 * r.distance <= 11 * targetDistanceM(targetSteps)
           /\ ~Eval(r.geometry).culDeSac
           /\ ~Eval(r.geometry).selfCross
           /\ Eval(r.geometry).circScore < 1500

C3_FailureAbsorbed ==
    /\ [][ (pc = "await" /\ ReplyIsFailure) =>
              /\ pc' = "loop"
              /\ attempt' = attempt + 1
              /\ bestAny' = bestAny
              /\ scored' = scored
              /\ radiusKm' = radiusKm
              /\ result' = NULL ]_vars
    /\ [](scored # << >> => pc # "rejected")

\* a route is returned although an earlier routing call failed
C3_Witness ==
    /\ pc = "done"
    /\ result # NULL
    /\ \E c \in 0 .. (MAX_ATTEMPTS - 1) :
         c < result.waypoints.ordinal /\ FailedAt(c)

\* C4: a geometry that routePassesThroughDangerZone reports as crossing an
\* Unsafe Region (the `unsafe` verdict of Evaluated) is never scored, never
\* recorded as best, and never returned from within the 20 budgeted attempts.
C4_UnsafeNeverKept ==
    /\ \A e \in ScoredSet : ~Eval(RouteAt(e.attempt).geometry).unsafe
    /\ bestAny # NULL => ~Eval(bestAny.geometry).unsafe
    /\ (result # NULL /\ result.waypoints.ordinal < MAX_ATTEMPTS) =>
         ~Eval(result.geometry).unsafe

\* a route is returned from within the budget after an attempt whose
\* geometry crossed an Unsafe Region
C4_Witness ==
    /\ pc = "done"
    /\ result.waypoints.ordinal < MAX_ATTEMPTS
    /\ \E c \in 0 .. (MAX_ATTEMPTS - 1) :
         /\ c < osrmCalls
         /\ ~FailedAt(c)
         /\ Eval(RouteAt(c).geometry).unsafe

\* the 21st call of the routing client has been made
FallbackCalled == osrmCalls = MAX_ATTEMPTS + 1

\* C5: the last-resort routing call is made exactly when the 20 budgeted
\* attempts are over and none of them was scored; what it returns is handed
\* back as it is, with its own waypoints, whatever its geometry and
\* distance; and a returned route that crosses an Unsafe Region can only
\* come from that call.
C5_FallbackOnlyWhenUnscored ==
    /\ FallbackCalled => (attempt = MAX_ATTEMPTS /\ scored = << >> /\ bestAny = NULL)
    /\ (Terminated /\ attempt = MAX_ATTEMPTS /\ scored = << >>) => FallbackCalled
    /\ (pc = "done" /\ FallbackCalled) =>
          /\ ~FailedAt(MAX_ATTEMPTS)
          /\ result.geometry = RouteAt(MAX_ATTEMPTS).geometry
          /\ result.distance = RoundDiv(RouteAt(MAX_ATTEMPTS).distance, 10)
          /\ result.waypoints.ordinal = MAX_ATTEMPTS
    /\ (result # NULL /\ Eval(result.geometry).unsafe) => FallbackCalled

\* the last-resort call returned a route that a budgeted attempt would have
\* abandoned or scored as imperfect
C5_Witness ==
    /\ pc = "done"
    /\ FallbackCalled
    /\ \/ Eval(result.geometry).unsafe
       \/ Eval(result.geometry).selfCross

C8_RejectsFiveTimesTarget ==
    ( /\ Terminated
      /\ targetSteps \in {3000, 6000, 10000, 15000}
      /\ \A c \in 0 .. MAX_ATTEMPTS :
            /\ ~FailedAt(c)
            /\ RouteAt(c).distance = 5 * targetDistanceM(targetSteps) )
    => pc = "rejected"

\* a decreasing measure of what is left to do
Remaining ==
    CASE pc = "loop"     -> 2 * (MAX_ATTEMPTS - attempt) + 3
      [] pc = "await"    -> 2 * (MAX_ATTEMPTS - attempt) + 2
      [] pc = "fallback" -> 1
      [] OTHER           -> 0

\* C9: every invocation ends: each step takes it closer to its end, it can
\* always take a step until it has resolved or rejected, and it makes at
\* most 20 budgeted routing calls and at most 21 in all.
C9_Terminates ==
    /\ [][Remaining' < Remaining]_vars
    /\ [](/\ Remaining >= 0
          /\ Terminated \/ CanStep
          /\ osrmCalls <= MAX_ATTEMPTS + 1
          /\ pc \in {"loop", "await"} => osrmCalls <= MAX_ATTEMPTS
          /\ attempt <= MAX_ATTEMPTS)

\* the invocation ended after the full 21 routing calls
C9_Witness == Terminated /\ osrmCalls = MAX_ATTEMPTS + 1

\* C10 (as claimed): every radius handed to the waypoint generator lies in
\* [0.3 km, 3.0 km].
C10_RadiusInRange ==
    waypoints # NULL => (300 <= waypoints.radiusKm /\ waypoints.radiusKm <= 3000)

\* C11: the number of waypoints is round(targetSteps * 0.75 / 1500) clamped
\* to [3, 8], the same at every attempt and at the fallback, and every
\* request sent to the routing service lists the start point, then the
\* waypoints in the order of their generation, then the start point again:
\* count + 2 coordinates.
C11_RequestShape ==
    LET count == Max2(3, Min2(8, (targetSteps + 1000) \div 2000))
    IN  /\ waypoints # NULL =>
              /\ waypoints.count = count
              /\ Len(waypoints.points) = count
        /\ request # NULL =>
              /\ Len(request) = count + 2
              /\ request[1] = << start[2], start[1] >>
              /\ request[count + 2] = << start[2], start[1] >>
              /\ \A i \in 1 .. count :
                    request[i + 1] = << waypoints.points[i][2], waypoints.points[i][1] >>

\* the request of the fallback call, for a ring of eight waypoints
C11_Witness ==
    /\ pc = "fallback"
    /\ osrmCalls = MAX_ATTEMPTS + 1
    /\ Len(request) = 10
    /\ request[10] = << 0, 0 >>
    /\ request[2] # request[3]

\* C12: the composite score of every scored candidate is
\* (0 if the distance fits, else 1) + (5 if backtracking) +
\* (4 if self-intersecting) + circularityScore; it is never negative, as
\* circularityScore never is, and it is 0 only when the three checks pass
\* and circularityScore is 0.
C12_CompositeScore ==
    /\ \A g \in GeometryNames : Eval(g).circScore >= 0
    /\ \A e \in ScoredSet :
         LET r    == RouteAt(e.attempt)
             T    == targetDistanceM(targetSteps)
             fits == 10 * r.distance >= 9 * T /\ 10 * r.distance <= 11 * T
             back == Eval(r.geometry).culDeSac
             self == Eval(r.geometry).selfCross
             circ == Eval(r.geometry).circScore
         IN  /\ e.score = (IF fits THEN 0 ELSE 1000) + (IF back THEN 5000 ELSE 0)
                            + (IF self THEN 4000 ELSE 0) + circ
             /\ e.score >= 0
             /\ e.score = 0 => (fits /\ ~back /\ ~self /\ circ = 0)

\* a self-intersecting candidate was scored 4 + its circularity, then a
\* candidate of score 0 was returned
C12_Witness ==
    /\ pc = "done"
    /\ \E e \in ScoredSet :
         /\ Eval(RouteAt(e.attempt).geometry).selfCross
         /\ e.score = 4000 + Eval("eight").circScore
         /\ \E f \in ScoredSet : f.attempt > e.attempt /\ f.score = 0

\* C13 (as claimed): in every returned result, stepsEstimate is
\* round(distance / 0.75) of the distance field of that same result.
C13_StepsFromReturnedDistance ==
    result # NULL => result.stepsEstimate = RoundDiv(4 * result.distance, 3)

\* the routing service is the one whose distance follows the farthest
\* requested waypoint, from the first call on
SmartService == script = << >> /\ steady = SmartMock

\* C14 (as claimed): for targetSteps in {3000, 6000, 10000, 15000} and a
\* routing service whose route distance is proportional to the greatest
\* distance from the start to a requested waypoint, the stepsEstimate of the
\* returned route is within 500 steps of targetSteps.
C14_SmartWithin500 ==
    (SmartService /\ targetSteps \in {3000, 6000, 10000, 15000} /\ result # NULL) =>
        /\ result.stepsEstimate >= targetSteps - 500
        /\ result.stepsEstimate <= targetSteps + 500

\* C14 (amended): the same, when every Math.random() returns 0.5, so that
\* each waypoint lies at the nominal radius, and the route distance is 2 pi
\* times the greatest distance from the start to a waypoint.
C14_SmartWithin500Pinned ==
    (SmartService /\ random = 500 /\ targetSteps \in {3000, 6000, 10000, 15000}) =>
        /\ result # NULL =>
             /\ result.stepsEstimate >= targetSteps - 500
             /\ result.stepsEstimate <= targetSteps + 500
        /\ pc # "rejected"

\* the pinned run for 15000 steps returned a route that is not exactly on
\* target
C14_Witness ==
    /\ SmartService
    /\ random = 500
    /\ targetSteps = 15000
    /\ pc = "done"
    /\ result.stepsEstimate # targetSteps
    /\ result.waypoints.radiusKm = 1800

\* the routing service replies the same route, of distance k * target, to
\* every call
ConstantService == script = << >> /\ ~callOSRMThrows(steady)

\* the distance of every reply of the constant service, k * target
ConstantDistance == steady.routes[1].distance

\* the target distance of the invocation
TargetOfRun == targetDistanceM(targetSteps)

\* (initial radius) / k for the constant service, in metres
InitialOverK == (InitialRadius(targetSteps) * TargetOfRun) \div ConstantDistance

\* C15 (as claimed): when every reply has the distance k * target, the radius
\* gets closer to (initial radius) / k, or stays as close, at every
\* adjustment that the clamp to [0.3, 3.0] km does not cut.
C15_ConvergesToInitialOverK ==
    [][ (ConstantService /\ radiusKm' # radiusKm /\ 300 < radiusKm' /\ radiusKm' < 3000)
          => Abs(radiusKm' - InitialOverK) <= Abs(radiusKm - InitialOverK) ]_vars

\* C15 (amended): when every reply has the distance k * target, every
\* adjustment replaces the radius r by r / k clamped to [0.3, 3.0] km.  From
\* a radius within [0.3, 3.0] km the radius so decreases when k > 1 and
\* increases when k < 1; after the first adjustment it is (initial radius) / k
\* clamped, and from the second on it lies beyond (initial radius) / k or at
\* the bound 0.3 km (k > 1.1) or 3.0 km (k < 0.9): it does not settle at
\* (initial radius) / k.
C15_RadiusDividedByK ==
    /\ [][ (ConstantService /\ radiusKm' # radiusKm) =>
             /\ radiusKm' = Max2(300, Min2(3000, (radiusKm * TargetOfRun) \div ConstantDistance))
             /\ (300 <= radiusKm /\ radiusKm <= 3000) =>
                   /\ ConstantDistance > TargetOfRun => radiusKm' < radiusKm
                   /\ ConstantDistance < TargetOfRun => radiusKm' > radiusKm ]_vars
    /\ [](ConstantService =>
            /\ (attempt = 1 /\ pc = "loop" /\ radiusKm # InitialRadius(targetSteps)) =>
                  radiusKm = Max2(300, Min2(3000, InitialOverK))
            /\ (attempt >= 2 /\ 10 * ConstantDistance > 11 * TargetOfRun) =>
                  (radiusKm < InitialOverK \/ radiusKm = 300)
            /\ (attempt >= 2 /\ 10 * ConstantDistance < 9 * TargetOfRun) =>
                  (radiusKm > InitialOverK \/ radiusKm = 3000))

\* for 10000 steps and k = 0.899 the radius went on from 1.2 km past
\* 1.2 / 0.899 km and is now between that and the bound
C15_Witness ==
    /\ ConstantService
    /\ targetSteps = 10000
    /\ 1000 * steady.routes[1].distance = 899 * targetDistanceM(targetSteps)
    /\ attempt = 3
    /\ radiusKm > InitialOverK + 100
    /\ radiusKm < 3000

(***************************************************************************)
(* The detectors (SpecQuality)                                             *)
(***************************************************************************)
\* the detector named f has been applied to the geometry of the state
Applied(f) == verdict # NULL /\ verdict.of = f

\* two points outside the first and last 5% of the geometry, at least 15
\* apart in the sequence and less than 10 m from each other
ClosePair(geometry) ==
    LET n    == Len(geometry)
        skip == (n * 5) \div 100
    IN  \E i \in skip .. (n - skip - 1) :
          \E j \in skip .. (n - skip - 1) :
            /\ j - i >= 15
            /\ haversineM(geometry[i + 1][1], geometry[i + 1][2],
                          geometry[j + 1][1], geometry[j + 1][2])
                 < CUL_DE_SAC_THRESHOLD_M * 100

\* C16: hasCulDeSac returns true if and only if two points outside the first
\* and last 5% of the sequence, with index gap >= 15, are less than 10 m from
\* each other, wherever they fall relative to the grid cells.
C16_CulDeSacIffClosePair ==
    Applied("hasCulDeSac") => (verdict.returned <=> ClosePair(Geometry(lineString)))

\* Two non-adjacent segments of the path meet, at an interior point or at a
\* vertex, and are not both in the loop-closure zone (one among the first,
\* the other among the last segments).
SelfCrossing(geometry) ==
    LET n    == Len(geometry)
        skip == Max2(2, (n * 5) \div 100)
        p(k) == geometry[k + 1]
    IN  \E i \in 0 .. (n - 2) :
          \E j \in (i + 2) .. (n - 2) :
            /\ ~(i < skip /\ j >= n - 1 - skip)
            /\ LET d1 == Sign(cross(p(i), p(i + 1), p(j)))
                   d2 == Sign(cross(p(i), p(i + 1), p(j + 1)))
                   d3 == Sign(cross(p(j), p(j + 1), p(i)))
                   d4 == Sign(cross(p(j), p(j + 1), p(i + 1)))
               IN  /\ d1 * d2 <= 0
                   /\ d3 * d4 <= 0
                   /\ << d1, d2, d3, d4 >> # << 0, 0, 0, 0 >>

\* C17: hasSelfIntersection returns false for every convex regular polygon
\* and true for every figure-eight, whatever its number of points and also
\* when the two branches cross at a vertex of the path.
C17_SelfIntersectionIffCrossing ==
    Applied("hasSelfIntersection") =>
        /\ lineString.family = "polygon" => ~verdict.returned
        /\ lineString.family = "eight" => verdict.returned
        /\ verdict.returned <=> SelfCrossing(Geometry(lineString))

\* the bounding box of the geometry is under 50 m wide or under 50 m high
NarrowBox(geometry) ==
    LET lngs == { geometry[k][1] : k \in 1 .. Len(geometry) }
        lats == { geometry[k][2] : k \in 1 .. Len(geometry) }
        midLat == (SetMin(lats) + SetMax(lats)) \div 2
        midLng == (SetMin(lngs) + SetMax(lngs)) \div 2
    IN  \/ haversineM(SetMin(lngs), midLat, SetMax(lngs), midLat) < 5000
        \/ haversineM(midLng, SetMin(lats), midLng, SetMax(lats)) < 5000

\* C18: circularityScore returns exactly 10 for every geometry of two points
\* or more whose bounding box is narrower than 50 m in width or in height.
C18_NarrowBoxScoresTen ==
    (Applied("circularityScore") /\ Len(Geometry(lineString)) >= 2
       /\ NarrowBox(Geometry(lineString)))
      => verdict.returned = 10000

\* the indices the crossing check samples in a geometry of n coordinates
SampledIndices(n) ==
    LET s == Max2(1, n \div 50)
    IN  { k \in 0 .. (n - 1) : k % s = 0 }

\* the coordinates of the geometry inside some Unsafe Region
InRegion(geometry) ==
    { k \in 0 .. (Len(geometry) - 1) :
        isInDangerZone(geometry[k + 1][2], geometry[k + 1][1]) }

DrawsFor(k) == SelectSeq(drawn, LAMBDA e : e.i = k)

\* the points generateSingleWaypoint can return for an angle
Drawable(angle) ==
    { generateSingleWaypoint(genRadiusKm, angle, u1, u2) :
        u1 \in CandidateDraws, u2 \in CandidateDraws }

\* waypoint q lies counter-clockwise of waypoint p, less than half a turn
\* away, seen from the centre (waypoints are <<lat, lng>>)
Follows(p, q) ==
    ((p[2] * CosMilli) \div 1000) * q[1] - ((q[2] * CosMilli) \div 1000) * p[1] > 0

\* what the claim says of waypoint k (from 1) of the ring
SafeWaypoint(k) ==
    LET draws  == DrawsFor(k - 1)
        angle  == WaypointAngle(baseAngleOffset, k - 1, genCount)
        last   == draws[Len(draws)]
        checks == Len(SelectSeq(draws, LAMBDA e : e.checked))
    IN  /\ Len(draws) >= 1
        /\ checks <= 3
        /\ \A d \in 1 .. (Len(draws) - 1) :
             draws[d].checked /\ draws[d].refused /\ draws[d].angle = angle
        /\ \/ /\ last.checked /\ ~last.refused
              /\ last.angle = angle
              /\ ring[k] \in Drawable(angle)
              /\ ~isInDangerZone(ring[k][1], ring[k][2])
           \/ /\ ~last.checked
              /\ checks = 3
              /\ last.angle = angle + 500
              /\ ring[k] \in Drawable(angle + 500)
        /\ isInDangerZone(ring[k][1], ring[k][2]) =>
             (Len(draws) = 4 /\ ~last.checked)
        /\ k > 1 => Follows(ring[k - 1], ring[k])

\* C20: generateSafeWaypoints returns exactly count waypoints in angular
\* order; for each index it asks at most 3 times whether a candidate is in an
\* Unsafe Region and accepts the first candidate found outside; a returned
\* waypoint lies inside a region only if the 3 checked candidates of its
\* index were inside one, and it is then a fourth draw at angle + 0.5 rad,
\* accepted without a check.  The ring and the list of draws only grow, so
\* the waypoint pushed last is examined in every state.
C20_SafeRing ==
    /\ Len(ring) = index
    /\ Len(ring) <= genCount
    /\ at = "return" => (Len(ring) = genCount /\ Follows(ring[genCount], ring[1]))
    /\ Len(ring) >= 1 => SafeWaypoint(Len(ring))

\* a ring has been returned whose first waypoint lies inside an Unsafe
\* Region, after three refused candidates, and whose second waypoint was the
\* first candidate drawn for it
C20_Witness ==
    /\ at = "return"
    /\ Len(ring) = genCount
    /\ isInDangerZone(ring[1][1], ring[1][2])
    /\ Len(DrawsFor(0)) = 4
    /\ Len(DrawsFor(1)) = 1

(***************************************************************************)
(* Order of the attempts, provenance of the result (Spec)                  *)
(***************************************************************************)
\* C21: attempts are strictly sequential.  Every routing call made has been
\* handled (its attempt counted) except at most the one in flight; waypoints
\* are drawn, and a call made, only from the head of the loop, with the
\* radius as the previous attempt left it; the radius changes only while the
\* reply of the call in flight is handled.
C21_Sequential ==
    /\ [](pc = "loop" => osrmCalls = attempt)
    /\ [](pc \in {"await", "fallback"} =>
            /\ osrmCalls = attempt + 1
            /\ waypoints.ordinal = attempt
            /\ waypoints.radiusKm = radiusKm)
    /\ [][ (waypoints' # waypoints \/ osrmCalls' # osrmCalls) =>
             /\ pc = "loop" /\ pc' \in {"await", "fallback"}
             /\ osrmCalls' = osrmCalls + 1
             /\ waypoints'.ordinal = osrmCalls
             /\ waypoints'.radiusKm = radiusKm ]_vars
    /\ [][ radiusKm' # radiusKm => (pc = "await" /\ pc' = "loop") ]_vars

\* the third call is in flight, for waypoints drawn with a radius the two
\* attempts before it have changed
C21_Witness ==
    /\ pc = "await"
    /\ attempt = 2
    /\ osrmCalls = 3
    /\ Len(scored) = 2
    /\ waypoints.radiusKm = radiusKm
    /\ radiusKm # InitialRadius(targetSteps)

\* the route the service gave to the call the ring wps was drawn for
RouteOfRing(wps) ==
    callOSRM(fetch(ReplyAt(wps.ordinal), coordString(allPoints(start, wps.points))))

\* C22: every result returned is all-or-nothing: its distance, geometry,
\* waypoints and maneuvers come from one and the same attempt, the waypoints
\* being those of the request whose response supplied the rest; so does the
\* recorded best at all times, also after it has been replaced.
C22_AllOrNothing ==
    /\ bestAny # NULL =>
         LET res == RouteOfRing(bestAny.waypoints)
         IN  /\ ~FailedAt(bestAny.waypoints.ordinal)
             /\ bestAny = [ distance  |-> res.distance,
                            geometry  |-> res.geometry,
                            waypoints |-> bestAny.waypoints,
                            maneuvers |-> res.maneuvers,
                            score     |-> score(targetSteps, res) ]
    /\ (pc = "done" /\ result # NULL) =>
         LET res == RouteOfRing(result.waypoints)
         IN  /\ ~FailedAt(result.waypoints.ordinal)
             /\ result.distance = RoundDiv(res.distance, 10)
             /\ result.geometry = res.geometry
             /\ result.maneuvers = res.maneuvers
             /\ result.maneuvers = extractManeuvers(RouteAt(result.waypoints.ordinal).legs)

\* the best recorded at the first attempt was replaced at the second, and the
\* replacement was returned when the attempts ran out
C22_Witness ==
    /\ pc = "done"
    /\ attempt = MAX_ATTEMPTS
    /\ bestAny # NULL
    /\ scored[1].attempt = 0
    /\ bestAny.waypoints.ordinal = 1
    /\ result.waypoints.ordinal = 1
    /\ result.geometry # RouteAt(0).geometry
    /\ result.maneuvers # << >>

\* the reply being handled is a route that crosses no Unsafe Region
ReplyIsScored ==
    /\ pc = "await"
    /\ ~ReplyIsFailure
    /\ ~Eval(reply.routes[1].geometry).unsafe

\* the distance of the route in `reply` is within [0.9 T, 1.1 T]
ReplyFits ==
    /\ 10 * reply.routes[1].distance >= 9 * targetDistanceM(targetSteps)
    /\ 10 * reply.routes[1].distance <= 11 * targetDistanceM(targetSteps)

\* clamp(radius * targetDistance / actualDistance, 0.3, 3.0), in metres
ClampedRescale ==
    Max2(300, Min2(3000, (radiusKm * targetDistanceM(targetSteps))
                            \div reply.routes[1].distance))

\* C24: the search radius changes only at the end of a scored attempt whose
\* distance did not fit, and then becomes clamp(radius * targetDistance /
\* actualDistance, 0.3, 3.0); an attempt whose routing call failed, one
\* blocked by an Unsafe Region crossing and a scored one whose distance fits
\* leave it as it is.
C24_RadiusFrame ==
    [][ IF ReplyIsScored /\ ~ReplyFits
        THEN radiusKm' = ClampedRescale
        ELSE radiusKm' = radiusKm ]_vars

\* the reply just handled had a fitting distance but a backtracking
\* geometry: it was scored, not returned, and the radius an earlier attempt
\* had changed stayed as it was
C24_Witness ==
    /\ pc = "loop"
    /\ attempt = 2
    /\ Len(scored) = 2
    /\ scored[2].attempt = 1
    /\ ReplyFits
    /\ Eval(reply.routes[1].geometry).culDeSac
    /\ radiusKm # InitialRadius(targetSteps)
    /\ waypoints.radiusKm = radiusKm

(***************************************************************************)
(* Short geometries (SpecQuality)                                          *)
(***************************************************************************)
\* C27 as stated: hasCulDeSac is false under 20 points, hasSelfIntersection
\* false under 40 points, circularityScore 0 under 10 points, and an attempt
\* whose geometry has fewer than 10 points and whose distance fits is
\* always returned at once, whatever its shape.
C27_ShortAlwaysReturned ==
    Applied("attempt") =>
        LET n == Len(Geometry(lineString))
            v == verdict.returned
        IN  /\ n < 20 => ~v.culDeSac
            /\ n < 40 => ~v.selfCross
            /\ n < 10 => v.circScore = 0
            /\ (n < 10 /\ v.fits) => v.returned

\* C27: the three detectors skip short geometries (under 20, 40 and 10
\* points), and an attempt whose geometry has fewer than 10 points and whose
\* distance fits is returned at once exactly when no sampled coordinate of
\* the geometry lies inside an Unsafe Region: a short geometry that crosses
\* a region is skipped like any other.
C27_ShortReturnedUnlessUnsafe ==
    Applied("attempt") =>
        LET geometry == Geometry(lineString)
            n == Len(geometry)
            v == verdict.returned
        IN  /\ n < 20 => ~v.culDeSac
            /\ n < 40 => ~v.selfCross
            /\ n < 10 => v.circScore = 0
            /\ v.unsafe <=> (SampledIndices(n) \cap InRegion(geometry) # {})
            /\ (n < 10 /\ v.fits) => (v.returned <=> ~v.unsafe)
            /\ ~v.fits => ~v.returned

\* the checks were applied to a figure-eight of 9 points with a fitting
\* distance: its branches cross, and it is returned at once
C27_Witness ==
    /\ Applied("attempt")
    /\ lineString.family = "eight"
    /\ Len(Geometry(lineString)) = 9
    /\ SelfCrossing(Geometry(lineString))
    /\ verdict.returned.fits
    /\ verdict.returned.returned

(***************************************************************************)
(* The recorded best and the returned result (Spec)                        *)
(***************************************************************************)
\* once recorded, the best is never null again and its score never increases
BestOnlyImproves ==
    [][ bestAny # NULL => (bestAny' # NULL /\ bestAny'.score <= bestAny.score) ]_vars

\* every recorded best fails a condition of the immediate return and has a
\* composite score of 1 or more
BestIsImperfect ==
    bestAny # NULL => (~Perfect(targetSteps, bestAny) /\ bestAny.score >= 1000)

\* the route of the result: the recorded best, or else the route of the
\* reply handled last
ReturnedRoute == IF bestAny # NULL THEN bestAny ELSE callOSRM(reply)

\* C28 as stated: the recorded best never becomes null again, its score never
\* increases, every recorded best fails a terminal-success condition and has
\* score >= 1, and a route returned after the 20 attempts are exhausted never
\* satisfies all four quality conditions.
C28_ExhaustedNeverPerfect ==
    /\ BestOnlyImproves
    /\ []BestIsImperfect
    /\ []((pc = "done" /\ attempt = MAX_ATTEMPTS) => ~Perfect(targetSteps, ReturnedRoute))

\* C28: the recorded best never becomes null again, its score never
\* increases, every recorded best fails a terminal-success condition and has
\* score >= 1; so the recorded best returned when the 20 attempts are
\* exhausted never satisfies all four quality conditions.  (The route of the
\* last-resort call, returned when no best was recorded, is not examined.)
C28_ReturnedBestImperfect ==
    /\ BestOnlyImproves
    /\ []BestIsImperfect
    /\ []((pc = "done" /\ attempt = MAX_ATTEMPTS /\ bestAny # NULL) =>
            /\ result = buildResult(bestAny.distance, bestAny.geometry,
                                    bestAny.waypoints, bestAny.maneuvers)
            /\ bestAny.score = SetMin({ e.score : e \in ScoredSet })
            /\ ~Perfect(targetSteps, bestAny))

\* the attempts ran out and the best, recorded at the first attempt and
\* improved since, was returned
C28_Witness ==
    /\ pc = "done"
    /\ attempt = MAX_ATTEMPTS
    /\ bestAny # NULL
    /\ Len(scored) >= 2
    /\ scored[1].score > bestAny.score
    /\ bestAny.score >= 1000
    /\ result.geometry = bestAny.geometry

\* the route a result is built from, read where generateRoute returns: the
\* recorded best at the end of the loop, the route of the reply otherwise
ResultSource == IF pc = "loop" THEN bestAny ELSE callOSRM(reply)

\* C29: the duration of every returned result is round(distance / 5000 * 3600)
\* of the routing service's unrounded distance, whatever duration the service
\* reported, and the returned distance is that distance rounded to the metre.
C29_WalkingPace ==
    [][ (result = NULL /\ result' # NULL) =>
            /\ result'.duration = RoundDiv(ResultSource.distance * 72, 1000)
            /\ result'.distance = RoundDiv(ResultSource.distance, 10) ]_vars

\* a result built from a reply whose distance is not a whole number of
\* metres and whose reported duration is another than the one returned
C29_Witness ==
    /\ pc = "done"
    /\ result # NULL
    /\ ~callOSRMThrows(reply)
    /\ result.geometry = reply.routes[1].geometry
    /\ reply.routes[1].distance % 10 # 0
    /\ result.distance = RoundDiv(reply.routes[1].distance, 10)
    /\ result.duration # reply.routes[1].duration
    /\ result.duration = RoundDiv(reply.routes[1].distance * 72, 1000)

(***************************************************************************)
(* SpecManeuvers: the maneuver extraction of callOSRM applied to the legs  *)
(* of one route of the routing service.  `given` is the route, `answer`    *)
(* holds the maneuvers extracted from it.                                  *)
(***************************************************************************)
\* the kinds of maneuver of the routes given: those of TURN_TYPES and two more
ManeuverKinds == TURN_TYPES \cup {"depart", "continue"}

\* the modifiers of the routing service, and none
Modifiers ==
    { << >>, <<"uturn">>, <<"left">>, <<"slight", "left">>, <<"sharp", "left">>,
      <<"right">>, <<"slight", "right">>, <<"sharp", "right">>, <<"straight">> }

\* the k-th step of a route is located at <<lng, lat>> = <<10k + 1, 10k + 2>>
StepAt(k, type, modifier) == Step(type, modifier, << 10 * k + 1, 10 * k + 2 >>)

\* routes of two steps, in one leg, in two legs, or after a leg without
\* steps; a route of one leg without steps; a route without legs
RoutesGiven ==
    { [distance |-> 1, legs |-> << [steps |-> << StepAt(1, t1, m1), StepAt(2, t2, m2) >>] >>] :
        t1 \in ManeuverKinds, m1 \in Modifiers, t2 \in ManeuverKinds, m2 \in Modifiers }
      \cup
    { [distance |-> 1, legs |-> << [steps |-> << StepAt(1, t1, m1) >>],
                                   [steps |-> << StepAt(2, t2, m2) >>] >>] :
        t1 \in ManeuverKinds, m1 \in Modifiers, t2 \in ManeuverKinds, m2 \in Modifiers }
      \cup
    { [distance |-> 1, legs |-> << [distance |-> 1], [steps |-> << StepAt(1, t1, m1) >>] >>] :
        t1 \in ManeuverKinds, m1 \in Modifiers }
      \cup
    { [distance |-> 1, legs |-> << [distance |-> 1] >>], [distance |-> 1] }

InitManeuvers ==
    /\ targetSteps = 10000
    /\ script = << >>
    /\ steady = SmartMock
    /\ random = 500
    /\ pc = "done"
    /\ attempt = 0
    /\ radiusKm = 0
    /\ bestAny = NULL
    /\ waypoints = NULL
    /\ request = NULL
    /\ reply = NULL
    /\ result = NULL
    /\ osrmCalls = 0
    /\ scored = << >>
    /\ QualityIdle
    /\ GeneratorIdle
    /\ ConcurrentIdle
    /\ ServerIdle
    /\ given \in RoutesGiven
    /\ answer = NULL

\* the loop over the legs and steps of the route
ExtractManeuvers ==
    /\ answer = NULL
    /\ answer' = [maneuvers |-> extractManeuvers(LegsOf(given))]
    /\ UNCHANGED << controllerVars, qualityVars, generatorVars, concurrentVars,
                    serverVars, given >>

NextManeuvers == ExtractManeuvers

SpecManeuvers == InitManeuvers /\ [][NextManeuvers]_vars

RECURSIVE StepsInOrder(_)
\* the steps of the legs, leg after leg
StepsInOrder(legs) ==
    IF legs = << >> THEN << >>
    ELSE (IF "steps" \in DOMAIN Head(legs) THEN Head(legs).steps ELSE << >>)
           \o StepsInOrder(Tail(legs))

\* the type the claim gives to a modifier, "" when the step is dropped
ClaimedType(mod) ==
    CASE mod = <<"slight", "left">>  -> "slight_left"
      [] mod = <<"slight", "right">> -> "slight_right"
      [] mod = <<"uturn">>           -> "uturn"
      [] mod \in { <<"left">>, <<"sharp", "left">> }   -> "left"
      [] mod \in { <<"right">>, <<"sharp", "right">> } -> "right"
      [] OTHER -> ""

Retained(step) ==
    /\ step.maneuver.type \in {"turn", "end of road", "fork", "roundabout turn"}
    /\ ClaimedType(step.maneuver.modifier) # ""

\* C25: the maneuvers callOSRM returns are those of the steps whose kind is
\* turn, end of road, fork or roundabout turn and whose modifier contains
\* "left", contains "right" or is "uturn", in the order of legs and steps;
\* the type is slight_left / slight_right exactly for "slight left" /
\* "slight right", left / right for the other left / right modifiers, uturn
\* for "uturn"; every other step gives no maneuver.
C25_ManeuversRetained ==
    answer # NULL =>
        LET kept == SelectSeq(StepsInOrder(IF "legs" \in DOMAIN given THEN given.legs
                                           ELSE << >>), Retained)
        IN  /\ Len(answer.maneuvers) = Len(kept)
            /\ \A k \in 1 .. Len(kept) :
                 /\ answer.maneuvers[k].type = ClaimedType(kept[k].maneuver.modifier)
                 /\ answer.maneuvers[k].lng = kept[k].maneuver.location[1]
                 /\ answer.maneuvers[k].lat = kept[k].maneuver.location[2]

\* a sharp left at a fork in the first leg and a slight right at the end of a
\* road in the second, returned as left then slight_right
C25_Witness ==
    /\ answer # NULL
    /\ "legs" \in DOMAIN given
    /\ Len(given.legs) = 2
    /\ "steps" \in DOMAIN given.legs[1]
    /\ given.legs[1].steps[1].maneuver.type = "fork"
    /\ given.legs[1].steps[1].maneuver.modifier = <<"sharp", "left">>
    /\ given.legs[2].steps[1].maneuver.type = "end of road"
    /\ given.legs[2].steps[1].maneuver.modifier = <<"slight", "right">>
    /\ Len(answer.maneuvers) = 2
    /\ answer.maneuvers[1].type = "left"
    /\ answer.maneuvers[1].lat = 12
    /\ answer.maneuvers[2].type = "slight_right"
    /\ answer.maneuvers[2].lng = 21

(***************************************************************************)
(* SpecFilter: filterSafeWaypoints applied to a list of waypoints, and     *)
(* again to what it returned.  `given` holds the list, `answer` the lists  *)
(* returned so far.                                                        *)
(***************************************************************************)
\* most waypoints in a list given
MaxGiven == 3

\* waypoints <<lat, lng>>: inside the first region, on the corner of the
\* second, inside the latitudes of the first but west of it, with latitude
\* and longitude of a point of the first region exchanged, and the centre
PointsGiven ==
    { <<-9000, 4500>>, <<-6000, 9900>>, <<-9000, 2999>>, <<4500, -9000>>, <<0, 0>> }

InitFilter ==
    /\ targetSteps = 10000
    /\ script = << >>
    /\ steady = SmartMock
    /\ random = 500
    /\ pc = "done"
    /\ attempt = 0
    /\ radiusKm = 0
    /\ bestAny = NULL
    /\ waypoints = NULL
    /\ request = NULL
    /\ reply = NULL
    /\ result = NULL
    /\ osrmCalls = 0
    /\ scored = << >>
    /\ QualityIdle
    /\ GeneratorIdle
    /\ ConcurrentIdle
    /\ ServerIdle
    /\ given \in { [waypoints |-> q] : q \in SeqsUpTo(PointsGiven, MaxGiven) }
    /\ answer = << >>

\* filterSafeWaypoints(waypoints)
ApplyFilter ==
    /\ answer = << >>
    /\ answer' = << filterSafeWaypoints(given.waypoints) >>
    /\ UNCHANGED << controllerVars, qualityVars, generatorVars, concurrentVars,
                    serverVars, given >>

\* filterSafeWaypoints applied to the list it returned
ApplyFilterAgain ==
    /\ Len(answer) = 1
    /\ answer' = Append(answer, filterSafeWaypoints(answer[1]))
    /\ UNCHANGED << controllerVars, qualityVars, generatorVars, concurrentVars,
                    serverVars, given >>

NextFilter == ApplyFilter \/ ApplyFilterAgain

SpecFilter == InitFilter /\ [][NextFilter]_vars

\* a point is in a danger zone iff it lies inside at least one Unsafe Region
InSomeRegion(wp) ==
    \/ (3000 <= wp[2] /\ wp[2] <= 6000 /\ -9500 <= wp[1] /\ wp[1] <= -8500)
    \/ (9900 <= wp[2] /\ wp[2] <= 10700 /\ -6700 <= wp[1] /\ wp[1] <= -6000)

OutsideRegions(wp) == ~InSomeRegion(wp)

\* C26: filterSafeWaypoints returns exactly the waypoints that lie in no
\* Unsafe Region, in their original order: all of them when none is in a
\* region, none when all are; applied to its own result it returns it
\* unchanged.
C26_FilterSafe ==
    /\ Len(answer) >= 1 =>
         /\ answer[1] = SelectSeq(given.waypoints, OutsideRegions)
         /\ (\A k \in 1 .. Len(given.waypoints) : OutsideRegions(given.waypoints[k]))
               => answer[1] = given.waypoints
         /\ (\A k \in 1 .. Len(given.waypoints) : InSomeRegion(given.waypoints[k]))
               => answer[1] = << >>
    /\ Len(answer) = 2 => answer[2] = answer[1]

\* a waypoint of the second region between two safe ones, the second of them
\* with the coordinates of a point of the first region exchanged: the two
\* safe ones are returned in order, and again on the second application
C26_Witness ==
    /\ Len(answer) = 2
    /\ given.waypoints = << <<0, 0>>, <<-6000, 9900>>, <<4500, -9000>> >>
    /\ answer[1] = << <<0, 0>>, <<4500, -9000>> >>
    /\ answer[2] = answer[1]

(***************************************************************************)
(* SpecConcurrent: two invocations of generateRoute in one process.  The   *)
(* event loop runs one invocation at a time up to its next await, so a     *)
(* step of an invocation is what it does between two awaits.  runs[r]      *)
(* holds the parameters and locals of invocation r; zones is the one       *)
(* module-level array the invocations have in common.  The library         *)
(* functions of danger-zones.ts are called between the steps as well.      *)
(***************************************************************************)
\* the radius an invocation reads: one module-level radius, that of the first
RadiusOf_ModuleLevel(all, r) == all[1].radiusKm

\* the radius an invocation reads: its own local (let radiusKm)
RadiusOf(all, r) == all[r].radiusKm

\* invocation r of `all` run up to its next await or return
RunStep(all, r) ==
    LET run    == all[r]
        radius == RadiusOf(all, r)
        called(place) ==
            LET wps == generateSafeWaypoints(radius, numWaypoints(run.targetSteps),
                                             run.osrmCalls, 500)
            IN  [run EXCEPT !.waypoints = wps,
                            !.reply = fetch(PhaseReply(run.script, run.steady, run.osrmCalls),
                                            coordString(allPoints(start, wps.points))),
                            !.osrmCalls = @ + 1,
                            !.pc = place]
        res == callOSRM(run.reply)
        sc  == score(run.targetSteps, res)
    IN  CASE run.pc = "loop" /\ run.attempt < MAX_ATTEMPTS -> called("await")
          [] run.pc = "loop" /\ ~(run.attempt < MAX_ATTEMPTS) /\ run.bestAny # NULL ->
                [run EXCEPT !.result = buildResult(run.bestAny.distance, run.bestAny.geometry,
                                                   run.bestAny.waypoints,
                                                   run.bestAny.maneuvers),
                            !.pc = "done"]
          [] run.pc = "loop" /\ ~(run.attempt < MAX_ATTEMPTS) /\ run.bestAny = NULL ->
                called("fallback")
          [] run.pc = "await" /\ callOSRMThrows(run.reply) ->
                [run EXCEPT !.attempt = @ + 1, !.pc = "loop"]
          [] run.pc = "await" /\ ~callOSRMThrows(run.reply) /\ CrossesUnsafeRegion(res) ->
                [run EXCEPT !.attempt = @ + 1, !.pc = "loop"]
          [] run.pc = "await" /\ ~callOSRMThrows(run.reply) /\ ~CrossesUnsafeRegion(res)
               /\ Perfect(run.targetSteps, res) ->
                [run EXCEPT !.result = buildResult(res.distance, res.geometry,
                                                   run.waypoints, res.maneuvers),
                            !.pc = "done"]
          [] run.pc = "await" /\ ~callOSRMThrows(run.reply) /\ ~CrossesUnsafeRegion(res)
               /\ ~Perfect(run.targetSteps, res) ->
                [run EXCEPT !.bestAny = IF ReplacesBest(run.bestAny, sc)
                                        THEN CandidateRoute(res, run.waypoints, sc)
                                        ELSE @,
                            !.radiusKm = IF NeedsAdjustment(run.targetSteps, res)
                                         THEN AdjustRadius(radius, run.targetSteps,
                                                           res.distance)
                                         ELSE @,
                            !.attempt = @ + 1,
                            !.pc = "loop"]
          [] run.pc = "fallback" /\ callOSRMThrows(run.reply) ->
                [run EXCEPT !.pc = "rejected"]
          [] run.pc = "fallback" /\ ~callOSRMThrows(run.reply) ->
                [run EXCEPT !.result = buildResult(res.distance, res.geometry,
                                                   run.waypoints, res.maneuvers),
                            !.pc = "done"]
          [] OTHER -> run

\* generateRoute(lat, lng, ts) as called, against a routing service that
\* follows `phases` and then `last`
NewRun(ts, phases, last) ==
    [ targetSteps |-> ts, script |-> phases, steady |-> last, pc |-> "loop",
      attempt |-> 0, radiusKm |-> InitialRadius(ts), bestAny |-> NULL,
      waypoints |-> NULL, reply |-> NULL, result |-> NULL, osrmCalls |-> 0 ]

OkReply(route) == [fetch |-> "resolved", ok |-> TRUE, code |-> "Ok", routes |-> << route >>]

\* the invocations followed: one whose routes are all too long, one whose
\* routes are all too short, one whose calls all fail, one whose routes are
\* all unsafe but that of the last-resort call, one that records a route
\* with a cul-de-sac and then finds a perfect one, and two against the
\* service whose distance follows the requested waypoints
RunsGiven ==
    { NewRun(10000, << >>, OkReply(Route(10000, 1101, "loop"))),
      NewRun(6000, << >>, OkReply(Route(6000, 500, "loop"))),
      NewRun(2000, << >>, [fetch |-> "rejected", ok |-> FALSE, code |-> "", routes |-> << >>]),
      NewRun(6000, << [reply |-> OkReply(Route(6000, 1100, "unsafe")), calls |-> MAX_ATTEMPTS] >>,
             OkReply(Route(6000, 900, "loop"))),
      NewRun(3000, << [reply |-> OkReply(Route(3000, 1100, "spur")), calls |-> 1] >>,
             OkReply(Route(3000, 1100, "loop"))),
      NewRun(15000, << >>, SmartMock),
      NewRun(30000, << >>, SmartMock) }

InitConcurrent ==
    /\ targetSteps = 10000
    /\ script = << >>
    /\ steady = SmartMock
    /\ random = 500
    /\ pc = "done"
    /\ attempt = 0
    /\ radiusKm = 0
    /\ bestAny = NULL
    /\ waypoints = NULL
    /\ request = NULL
    /\ reply = NULL
    /\ result = NULL
    /\ osrmCalls = 0
    /\ scored = << >>
    /\ QualityIdle
    /\ GeneratorIdle
    /\ LibraryIdle
    /\ ServerIdle
    /\ zones = dangerZones
    /\ runs \in { << a, b >> : a \in RunsGiven, b \in RunsGiven }

Returned(run) == run.pc \in {"done", "rejected"}

\* invocation r resumes and runs up to its next await or to its return
StepOfRun ==
    \E r \in DOMAIN runs :
        /\ ~Returned(runs[r])
        /\ runs' = [runs EXCEPT ![r] = RunStep(runs, r)]
        /\ UNCHANGED << controllerVars, qualityVars, generatorVars, libraryVars,
                        serverVars, zones >>

\* isInDangerZone, filterSafeWaypoints, routePassesThroughDangerZone and
\* getDangerZones called from elsewhere while the invocations are suspended
CallZoneFunctions ==
    /\ given = NULL
    /\ \E q \in { << <<0, 0>>, <<-9000, 4500>> >>, << <<-6000, 9900>> >> } :
          /\ given' = [waypoints |-> q]
          /\ answer' = [ isInDangerZone     |-> isInDangerZone(q[1][1], q[1][2]),
                         filterSafeWaypoints |-> filterSafeWaypoints(q),
                         routePassesThroughDangerZone |->
                             routePassesThroughDangerZone([i \in 1 .. Len(q) |->
                                                             << q[i][2], q[i][1] >>]),
                         getDangerZones     |-> zones ]
    /\ UNCHANGED << controllerVars, qualityVars, generatorVars, serverVars, zones, runs >>

NextConcurrent == StepOfRun \/ CallZoneFunctions

SpecConcurrent == InitConcurrent /\ [][NextConcurrent]_vars

RECURSIVE AloneOutcome(_)
\* the invocation run alone to its return
AloneOutcome(run) ==
    IF Returned(run) THEN run ELSE AloneOutcome(RunStep(<< run >>, 1))

FREE_ROUTE_LIMIT == 5

RATE_LIMIT_SECONDS == 30

\* most requests followed
MaxPosts == 3

\* the clock stops here
MaxClock == 60

\* the rows the user has before the first request, all older than the rate
\* limit
RowsBefore == {0, 4, 5}

NewPost ==
    [ at |-> "idle", rowsOnArrival |-> 0, routeCount |-> 0, status |-> 0,
      generated |-> FALSE, inserted |-> FALSE ]

InitServer ==
    /\ targetSteps = 10000
    /\ script = << >>
    /\ steady = SmartMock
    /\ random = 500
    /\ pc = "done"
    /\ attempt = 0
    /\ radiusKm = 0
    /\ bestAny = NULL
    /\ waypoints = NULL
    /\ request = NULL
    /\ reply = NULL
    /\ result = NULL
    /\ osrmCalls = 0
    /\ scored = << >>
    /\ QualityIdle
    /\ GeneratorIdle
    /\ LibraryIdle
    /\ ConcurrentIdle
    /\ \E n \in RowsBefore : routeRows = [i \in 1 .. n |-> 0 - RATE_LIMIT_SECONDS]
    /\ now = 0
    /\ posts = [p \in 1 .. MaxPosts |-> NewPost]

Answer(p, code) == [posts EXCEPT ![p].at = "answered", ![p].status = code]

Goto(p, place) == [posts EXCEPT ![p].at = place]

\* the request arrives; the content-length header is tested
Receive ==
    \E p \in DOMAIN posts, tooLarge \in BOOLEAN :
        /\ posts[p].at = "idle"
        /\ posts' = IF tooLarge
                    THEN [Answer(p, 413) EXCEPT ![p].rowsOnArrival = Len(routeRows)]
                    ELSE [Goto(p, "getUser") EXCEPT ![p].rowsOnArrival = Len(routeRows)]
        /\ UNCHANGED << controllerVars, qualityVars, generatorVars, libraryVars,
                        concurrentVars, routeRows, now >>

\* if (!user) 401
GetUser ==
    \E p \in DOMAIN posts, user \in BOOLEAN :
        /\ posts[p].at = "getUser"
        /\ posts' = IF ~user THEN Answer(p, 401) ELSE Goto(p, "lastRoute")
        /\ UNCHANGED << controllerVars, qualityVars, generatorVars, libraryVars,
                        concurrentVars, routeRows, now >>

\* the created_at of the user's latest row: created_at grows with the rows
LastCreated == routeRows[Len(routeRows)]

\* rate limiting on the latest row
RateLimit ==
    \E p \in DOMAIN posts :
        /\ posts[p].at = "lastRoute"
        /\ posts' = IF routeRows # << >> /\ now - LastCreated < RATE_LIMIT_SECONDS
                    THEN Answer(p, 429)
                    ELSE Goto(p, "count")
        /\ UNCHANGED << controllerVars, qualityVars, generatorVars, libraryVars,
                        concurrentVars, routeRows, now >>

\* the quota: the count of the user's rows against FREE_ROUTE_LIMIT
CheckQuota ==
    \E p \in DOMAIN posts, countError \in BOOLEAN :
        /\ posts[p].at = "count"
        /\ posts' = IF countError THEN Answer(p, 500)
                    ELSE LET routeCount == Len(routeRows)
                         IN  IF routeCount >= FREE_ROUTE_LIMIT
                             THEN [Answer(p, 403) EXCEPT ![p].routeCount = routeCount]
                             ELSE [Goto(p, "text") EXCEPT ![p].routeCount = routeCount]
        /\ UNCHANGED << controllerVars, qualityVars, generatorVars, libraryVars,
                        concurrentVars, routeRows, now >>

\* the body is parsed and validated; generateRoute is called
ReadBody ==
    \E p \in DOMAIN posts, body \in {"valid", "too large", "invalid"} :
        /\ posts[p].at = "text"
        /\ posts' = CASE body = "too large" -> Answer(p, 413)
                      [] body = "invalid"   -> Answer(p, 400)
                      [] OTHER -> [Goto(p, "generate") EXCEPT ![p].generated = TRUE]
        /\ UNCHANGED << controllerVars, qualityVars, generatorVars, libraryVars,
                        concurrentVars, routeRows, now >>

\* generateRoute returns a route, or throws into the catch (500)
RouteGenerated ==
    \E p \in DOMAIN posts, throws \in BOOLEAN :
        /\ posts[p].at = "generate"
        /\ posts' = IF throws THEN Answer(p, 500) ELSE Goto(p, "insert")
        /\ UNCHANGED << controllerVars, qualityVars, generatorVars, libraryVars,
                        concurrentVars, routeRows, now >>

\* the row is inserted (created_at defaults to now()); an insert error is
\* only logged; the response is 200 either way
InsertRow ==
    \E p \in DOMAIN posts, insertError \in BOOLEAN :
        /\ posts[p].at = "insert"
        /\ routeRows' = IF insertError THEN routeRows ELSE Append(routeRows, now)
        /\ posts' = [Answer(p, 200) EXCEPT ![p].inserted = ~insertError]
        /\ UNCHANGED << controllerVars, qualityVars, generatorVars, libraryVars,
                        concurrentVars, now >>

\* time passes
Tick ==
    /\ now < MaxClock
    /\ now' = now + RATE_LIMIT_SECONDS
    /\ UNCHANGED << controllerVars, qualityVars, generatorVars, libraryVars,
                    concurrentVars, routeRows, posts >>

NextServer ==
    \/ Receive
    \/ GetUser
    \/ RateLimit
    \/ CheckQuota
    \/ ReadBody
    \/ RouteGenerated
    \/ InsertRow
    \/ Tick

SpecServer == InitServer /\ [][NextServer]_vars

\* a request made when the user already has FREE_ROUTE_LIMIT rows or more
\* never calls generateRoute nor inserts a row, and the quota check answers
\* it with 403
RefusedAtLimit ==
    \A p \in DOMAIN posts :
        posts[p].at # "idle" /\ posts[p].rowsOnArrival >= FREE_ROUTE_LIMIT =>
            /\ ~posts[p].generated
            /\ ~posts[p].inserted
            /\ posts[p].at \notin {"text", "generate", "insert"}
            /\ posts[p].status # 200

\* C30 (as claimed): the user's rows never exceed FREE_ROUTE_LIMIT, under
\* every interleaving of the user's concurrent requests, and a request made
\* when the user already has FREE_ROUTE_LIMIT rows or more is refused without
\* a call of generateRoute and without a row.
C30_QuotaNeverExceeded ==
    /\ Len(routeRows) <= FREE_ROUTE_LIMIT
    /\ RefusedAtLimit

=============================================================================
